---- MODULE Spec2Model ----
(***************************************************************************)
(* ai-tunnel: channel / key-pool state, router, retry controller and the   *)
(* unified proxy's per-request retry loop, with the health prober and the  *)
(* management API acting on the same channel objects.                      *)
(*                                                                         *)
(* One action is one run-to-completion slice of the Node.js event loop:    *)
(* the synchronous code between two awaits (or one event callback).        *)
(* Indices (key index, round-robin cursor, attempt) are 0-based as in the  *)
(* source; sequences are 1-based, so key i of the source is keys[i + 1].   *)
(***************************************************************************)
EXTENDS Integers, Sequences, FiniteSets, TLC

VARIABLES
    heap,        \* Seq of channel objects (createChannel results); a channel is named by its position
    channelMap,  \* router.channelMap: Seq of heap ids in Map insertion order
    routes,      \* router.routes: Seq of route groups
    rrCounters,  \* router.mjs rrCounters: joined channel-name list -> counter
    retryCfg,    \* createRetryController(config).config: [maxRetries, retryOn]
    req,         \* per-request context of createUnifiedProxy's handler
    lastPick,    \* per heap id: indices returned by the two latest pickKey calls with no change of the key pool between or after them
    envOps,      \* number of management / prober operations performed so far
    lastOp,      \* the latest key-pool operation (SpecPool), its argument and the cursor before
                 \* it; the outcome of the latest reload (Spec)
    logLevel,    \* logger.mjs currentLevel, as set by setLogLevel
    healthTimers,\* heap ids of the channels whose health-check interval timer is running
    mock,        \* test/mock-api.mjs upstream servers by channel name (none: the upstream is arbitrary)
    obs,         \* a subscriber of logger.mjs's event bus: the events it received, and the
                 \* channel objects as they were when the latest request arrived
    api,         \* api.mjs createApiServer: its token, and the requests it answered
    tunnel,      \* tunnel.mjs createTunnelManager's closure (conn, destroyed, reconnectTimer)
                 \* and main's tunnelShutdown
    picked       \* SpecRouter: the latest call of resolve / resolveNext and what it returned

vars == <<heap, channelMap, routes, rrCounters, retryCfg, req, lastPick, envOps, lastOp,
          logLevel, healthTimers, mock, obs, api, tunnel, picked>>

\* ───────────────────────── bounds ─────────────────────────
NumRequests == 2
MaxEnvOps == 1
MaxPoolOps == 5
MaxKeys == 3
MaxRetriesCfg == 1
MaxLatency == 1

Latencies == 1..MaxLatency

\* ───────────────────────── program constants ─────────────────────────
NoLatency == -1
NoPick == -1
NoChan == 0
KeyFailThreshold == 3
ChannelFailThreshold == 3
UNHEALTHY_THRESHOLD == 3

KEY_FAILURE_CODES == {401, 403}
CHANNEL_FAILURE_CODES == {502, 503, 504}
DefaultRetryOn == {429, 502, 503, 504}
BufferedStatuses == {429, 401, 403, 502, 503, 504}
StreamStatuses == {200, 404}

\* ───────────────────────── helpers ─────────────────────────
Range(s) == {s[i] : i \in DOMAIN s}

RECURSIVE SelectSeqIdx(_, _, _)
\* Array.prototype.filter over positions: the subsequence of ids of s (in order) satisfying Test
SelectSeqIdx(s, Test(_), i) ==
    IF i > Len(s) THEN <<>>
    ELSE IF Test(s[i]) THEN <<s[i]>> \o SelectSeqIdx(s, Test, i + 1)
    ELSE SelectSeqIdx(s, Test, i + 1)

Filter(s, Test(_)) == SelectSeqIdx(s, Test, 1)

\* ───────────────────────── channel.mjs ─────────────────────────
createKey(k) == [value |-> k, alive |-> TRUE, failCount |-> 0]

createChannel(cfg) ==
    [ name |-> cfg.name,
      weight |-> cfg.weight,
      fallback |-> cfg.fallback,
      keyStrategy |-> cfg.keyStrategy,
      enabled |-> TRUE,
      healthCheck |-> cfg.healthCheck,
      health |-> "unknown",
      latency |-> NoLatency,
      consecutiveFails |-> 0,
      keys |-> [i \in 1..Len(cfg.keys) |-> createKey(cfg.keys[i])],
      keyIndex |-> 0,
      stats |-> [totalRequests |-> 0, successCount |-> 0, failCount |-> 0] ]

AliveIdx(ch) == {i \in 0..(Len(ch.keys) - 1) : ch.keys[i + 1].alive}

keyStats(ch) == [alive |-> Cardinality(AliveIdx(ch)), total |-> Len(ch.keys)]

\* isAvailable that does not look at the channel's health
isAvailableAnyHealth(ch) == ch.enabled /\ keyStats(ch).alive > 0

isAvailable(ch) == ch.enabled /\ ch.health # "unhealthy" /\ keyStats(ch).alive > 0

\* round-robin scan: offset i of the first alive key at (keyIndex + i) % total
RECURSIVE rrScan(_, _)
rrScan(ch, i) ==
    IF i >= Len(ch.keys) THEN NoPick
    ELSE LET idx == (ch.keyIndex + i) % Len(ch.keys)
         IN IF ch.keys[idx + 1].alive THEN idx ELSE rrScan(ch, i + 1)

\* the rnd-th (0-based) alive key in pool order: alive[Math.floor(Math.random() * alive.length)]
NthAlive(ch, rnd) ==
    CHOOSE i \in AliveIdx(ch) : Cardinality({j \in AliveIdx(ch) : j < i}) = rnd

\* pickKey whose round-robin branch leaves the cursor where it was
pickKeyNoAdvance(ch, rnd) ==
    IF AliveIdx(ch) = {} THEN [index |-> NoPick, value |-> "", ch |-> ch]
    ELSE IF ch.keyStrategy = "random"
         THEN LET i == NthAlive(ch, rnd % Cardinality(AliveIdx(ch)))
              IN [index |-> i, value |-> ch.keys[i + 1].value, ch |-> ch]
         ELSE LET idx == rrScan(ch, 0)
              IN [index |-> idx, value |-> ch.keys[idx + 1].value, ch |-> ch]

\* pickKey whose round-robin branch moves the cursor one slot on instead of past the key returned
pickKeyStep(ch, rnd) ==
    IF AliveIdx(ch) = {} THEN [index |-> NoPick, value |-> "", ch |-> ch]
    ELSE IF ch.keyStrategy = "random"
         THEN LET i == NthAlive(ch, rnd % Cardinality(AliveIdx(ch)))
              IN [index |-> i, value |-> ch.keys[i + 1].value, ch |-> ch]
         ELSE LET idx == rrScan(ch, 0)
              IN [index |-> idx, value |-> ch.keys[idx + 1].value,
                  ch |-> [ch EXCEPT !.keyIndex = (ch.keyIndex + 1) % Len(ch.keys)]]

\* pickKey(channel): [index, value, ch] with index = NoPick for null; ch is the channel afterwards
pickKey(ch, rnd) ==
    IF AliveIdx(ch) = {} THEN [index |-> NoPick, value |-> "", ch |-> ch]
    ELSE IF ch.keyStrategy = "random"
         THEN LET i == NthAlive(ch, rnd % Cardinality(AliveIdx(ch)))
              IN [index |-> i, value |-> ch.keys[i + 1].value, ch |-> ch]
         ELSE LET idx == rrScan(ch, 0)
              IN [index |-> idx, value |-> ch.keys[idx + 1].value,
                  ch |-> [ch EXCEPT !.keyIndex = (idx + 1) % Len(ch.keys)]]

\* markKeyFailed that disables one failure late (> instead of >=)
markKeyFailedLate(ch, keyIndex) ==
    IF keyIndex < 0 \/ keyIndex >= Len(ch.keys) THEN ch
    ELSE LET n == ch.keys[keyIndex + 1].failCount + 1
         IN [ch EXCEPT !.keys[keyIndex + 1].failCount = n,
                       !.keys[keyIndex + 1].alive =
                           IF n > KeyFailThreshold THEN FALSE ELSE @]

\* markKeyFailed that stops counting once the key is disabled
markKeyFailedCapped(ch, keyIndex) ==
    IF keyIndex < 0 \/ keyIndex >= Len(ch.keys) THEN ch
    ELSE IF ch.keys[keyIndex + 1].failCount >= KeyFailThreshold THEN ch
    ELSE LET n == ch.keys[keyIndex + 1].failCount + 1
         IN [ch EXCEPT !.keys[keyIndex + 1].failCount = n,
                       !.keys[keyIndex + 1].alive =
                           IF n >= KeyFailThreshold THEN FALSE ELSE @]

markKeyFailed(ch, keyIndex) ==
    IF keyIndex < 0 \/ keyIndex >= Len(ch.keys) THEN ch
    ELSE LET n == ch.keys[keyIndex + 1].failCount + 1
         IN [ch EXCEPT !.keys[keyIndex + 1].failCount = n,
                       !.keys[keyIndex + 1].alive =
                           IF n >= KeyFailThreshold THEN FALSE ELSE @]

\* markKeySuccess that re-enables the key and keeps its failure counter
markKeySuccessNoReset(ch, keyIndex) ==
    IF keyIndex < 0 \/ keyIndex >= Len(ch.keys) THEN ch
    ELSE [ch EXCEPT !.keys[keyIndex + 1].alive = TRUE]

markKeySuccess(ch, keyIndex) ==
    IF keyIndex < 0 \/ keyIndex >= Len(ch.keys) THEN ch
    ELSE [ch EXCEPT !.keys[keyIndex + 1].failCount = 0,
                    !.keys[keyIndex + 1].alive = TRUE]

recordSuccess(ch, latencyMs) ==
    [ch EXCEPT !.stats.totalRequests = @ + 1,
               !.stats.successCount = @ + 1,
               !.latency = latencyMs,
               !.consecutiveFails = 0,
               !.health = "healthy"]

\* recordFailure that forgets stats.totalRequests++
recordFailureNoTotal(ch) ==
    LET n == ch.consecutiveFails + 1
    IN [ch EXCEPT !.stats.failCount = @ + 1,
                  !.consecutiveFails = n,
                  !.health = IF n >= ChannelFailThreshold THEN "unhealthy" ELSE @]

\* recordFailure that demotes one failure late (> instead of >=)
recordFailureLate(ch) ==
    LET n == ch.consecutiveFails + 1
    IN [ch EXCEPT !.stats.totalRequests = @ + 1,
                  !.stats.failCount = @ + 1,
                  !.consecutiveFails = n,
                  !.health = IF n > ChannelFailThreshold THEN "unhealthy" ELSE @]

recordFailure(ch) ==
    LET n == ch.consecutiveFails + 1
    IN [ch EXCEPT !.stats.totalRequests = @ + 1,
                  !.stats.failCount = @ + 1,
                  !.consecutiveFails = n,
                  !.health = IF n >= ChannelFailThreshold THEN "unhealthy" ELSE @]

setHealth(ch, status, latencyMs) ==
    IF status = "healthy" /\ latencyMs # NoLatency
    THEN [ch EXCEPT !.health = status, !.latency = latencyMs, !.consecutiveFails = 0]
    ELSE [ch EXCEPT !.health = status]

addKey(ch, keyValue) == [ch EXCEPT !.keys = Append(@, createKey(keyValue))]

\* splice(keyIndex, 1)
Splice1(s, keyIndex) ==
    [i \in 1..(Len(s) - 1) |-> IF i <= keyIndex THEN s[i] ELSE s[i + 1]]

\* removeKey that resets the cursor whenever the removed index is at or past it
removeKeyResetAtOrPast(ch, keyIndex) ==
    IF keyIndex < 0 \/ keyIndex >= Len(ch.keys) THEN ch
    ELSE LET ks == Splice1(ch.keys, keyIndex)
         IN [ch EXCEPT !.keys = ks,
                       !.keyIndex = IF keyIndex >= @ \/ @ >= Len(ks) THEN 0 ELSE @]

\* removeKey that leaves the cursor alone
removeKeyNoClamp(ch, keyIndex) ==
    IF keyIndex < 0 \/ keyIndex >= Len(ch.keys) THEN ch
    ELSE [ch EXCEPT !.keys = Splice1(ch.keys, keyIndex)]

removeKey(ch, keyIndex) ==
    IF keyIndex < 0 \/ keyIndex >= Len(ch.keys) THEN ch
    ELSE LET ks == Splice1(ch.keys, keyIndex)
         IN [ch EXCEPT !.keys = ks,
                       !.keyIndex = IF @ >= Len(ks) THEN 0 ELSE @]

\* ───────────────────────── retry.mjs ─────────────────────────
shouldRetry(statusCode) == statusCode \in retryCfg.retryOn

isKeyFailure(statusCode) == statusCode \in KEY_FAILURE_CODES

isChannelFailure(statusCode) == statusCode \in CHANNEL_FAILURE_CODES

\* ───────────────────────── router.mjs ─────────────────────────
\* Paths and patterns are sequences of one-character strings.
StartsWith(s, p) == Len(p) <= Len(s) /\ SubSeq(s, 1, Len(p)) = p

EndsWith(s, p) == Len(p) <= Len(s) /\ SubSeq(s, Len(s) - Len(p) + 1, Len(s)) = p

\* String.prototype.slice(n) for 0 <= n
SliceFrom(s, n) == IF n >= Len(s) THEN <<>> ELSE SubSeq(s, n + 1, Len(s))

pathMatches(pattern, path) ==
    IF pattern = <<"/", "*", "*">> \/ pattern = <<"*">> THEN TRUE
    ELSE IF EndsWith(pattern, <<"/", "*", "*">>)
    THEN LET prefix == SubSeq(pattern, 1, Len(pattern) - 3)
         IN path = prefix \/ StartsWith(path, prefix \o <<"/">>)
    ELSE IF EndsWith(pattern, <<"/", "*">>)
    THEN LET prefix == SubSeq(pattern, 1, Len(pattern) - 2)
             rest == SliceFrom(path, Len(prefix))
         IN StartsWith(path, prefix) /\ "/" \notin Range(SliceFrom(rest, 1))
    ELSE pattern = path

\* matchRoute: index of the first matching route group, 0 for null
matchRoute(rs, reqPath) ==
    IF \E i \in DOMAIN rs : pathMatches(rs[i].path, reqPath)
    THEN CHOOSE i \in DOMAIN rs :
            /\ pathMatches(rs[i].path, reqPath)
            /\ \A j \in 1..(i - 1) : ~pathMatches(rs[j].path, reqPath)
    ELSE 0

\* channelMap.get(name): heap id, NoChan for undefined
getChannel(h, cm, name) ==
    IF \E i \in DOMAIN cm : h[cm[i]].name = name
    THEN cm[CHOOSE i \in DOMAIN cm : h[cm[i]].name = name]
    ELSE NoChan

\* route.channels.map((n) => channelMap.get(n)).filter(Boolean)
RECURSIVE routeChannels(_, _, _)
routeChannels(h, cm, names) ==
    IF names = <<>> THEN <<>>
    ELSE LET c == getChannel(h, cm, Head(names))
         IN (IF c = NoChan THEN <<>> ELSE <<c>>) \o routeChannels(h, cm, Tail(names))

\* Array.prototype.sort with comparator Cmp on a short array: stable insertion
RECURSIVE InsertSorted(_, _, _, _)
InsertSorted(out, x, Cmp(_, _), j) ==
    IF j >= 1 /\ Cmp(x, out[j]) < 0
    THEN InsertSorted(out, x, Cmp, j - 1)
    ELSE SubSeq(out, 1, j) \o <<x>> \o SubSeq(out, j + 1, Len(out))

RECURSIVE SortFrom(_, _, _, _)
SortFrom(s, out, Cmp(_, _), i) ==
    IF i > Len(s) THEN out
    ELSE SortFrom(s, InsertSorted(out, s[i], Cmp, Len(out)), Cmp, i + 1)

Sort(s, Cmp(_, _)) == SortFrom(s, <<>>, Cmp, 1)

rrGet(rr, key) == IF key \in DOMAIN rr THEN rr[key] ELSE 0

rrSet(rr, key, v) == [k \in DOMAIN rr \cup {key} |-> IF k = key THEN v ELSE rr[k]]

\* pickWithKey(channel): [chan, key, heap, rr]; chan = NoChan for null
pickWithKey(h, rr, c, rnd) ==
    LET pk == pickKey(h[c], rnd)
    IN IF pk.index = NoPick
       THEN [chan |-> NoChan, key |-> [index |-> NoPick, value |-> ""], heap |-> h, rr |-> rr]
       ELSE [chan |-> c, key |-> [index |-> pk.index, value |-> pk.value],
             heap |-> [h EXCEPT ![c] = pk.ch], rr |-> rr]

\* pickFromChannels whose priority comparator looks at the fallback flag only
pickFromChannelsUnweighted(h, rr, channels, strategy, rnd) ==
    LET IsAvail(c) == isAvailable(h[c])
        IsFallback(c) == h[c].enabled /\ h[c].fallback
        available == Filter(channels, IsAvail)
        fallbacks == Filter(channels, IsFallback)
        names == [i \in DOMAIN available |-> h[available[i]].name]
        ByLatency(a, b) ==
            IF h[a].latency = NoLatency THEN 1
            ELSE IF h[b].latency = NoLatency THEN -1
            ELSE h[a].latency - h[b].latency
        ByPriority(a, b) ==
            IF h[a].fallback # h[b].fallback
            THEN (IF h[a].fallback THEN 1 ELSE -1)
            ELSE 0
    IN IF available = <<>>
       THEN IF fallbacks # <<>>
            THEN pickWithKey(h, rr, fallbacks[1], rnd)
            ELSE [chan |-> NoChan, key |-> [index |-> NoPick, value |-> ""], heap |-> h, rr |-> rr]
       ELSE IF strategy = "round-robin"
            THEN LET idx == rrGet(rr, names) % Len(available)
                 IN pickWithKey(h, rrSet(rr, names, idx + 1), available[idx + 1], rnd)
            ELSE IF strategy = "lowest-latency"
            THEN pickWithKey(h, rr, Sort(available, ByLatency)[1], rnd)
            ELSE pickWithKey(h, rr, Sort(available, ByPriority)[1], rnd)

pickFromChannels(h, rr, channels, strategy, rnd) ==
    LET IsAvail(c) == isAvailable(h[c])
        IsFallback(c) == h[c].enabled /\ h[c].fallback
        available == Filter(channels, IsAvail)
        fallbacks == Filter(channels, IsFallback)
        names == [i \in DOMAIN available |-> h[available[i]].name]
        ByLatency(a, b) ==
            IF h[a].latency = NoLatency THEN 1
            ELSE IF h[b].latency = NoLatency THEN -1
            ELSE h[a].latency - h[b].latency
        ByPriority(a, b) ==
            IF h[a].fallback # h[b].fallback
            THEN (IF h[a].fallback THEN 1 ELSE -1)
            ELSE h[b].weight - h[a].weight
    IN IF available = <<>>
       THEN IF fallbacks # <<>>
            THEN pickWithKey(h, rr, fallbacks[1], rnd)
            ELSE [chan |-> NoChan, key |-> [index |-> NoPick, value |-> ""], heap |-> h, rr |-> rr]
       ELSE IF strategy = "round-robin"
            THEN LET idx == rrGet(rr, names) % Len(available)
                 IN pickWithKey(h, rrSet(rr, names, idx + 1), available[idx + 1], rnd)
            ELSE IF strategy = "lowest-latency"
            THEN pickWithKey(h, rr, Sort(available, ByLatency)[1], rnd)
            ELSE pickWithKey(h, rr, Sort(available, ByPriority)[1], rnd)

resolve(h, cm, rs, rr, path, rnd) ==
    LET r == matchRoute(rs, path)
    IN IF r = 0
       THEN pickFromChannels(h, rr, cm, "priority", rnd)
       ELSE pickFromChannels(h, rr, routeChannels(h, cm, rs[r].channels), rs[r].strategy, rnd)

\* resolveNext that does not filter the pool by excludeNames
resolveNextNoFilter(h, cm, rs, rr, path, excludeNames, rnd) ==
    LET r == matchRoute(rs, path)
        pool == IF r = 0 THEN cm ELSE routeChannels(h, cm, rs[r].channels)
    IN pickFromChannels(h, rr, pool, IF r = 0 THEN "priority" ELSE rs[r].strategy, rnd)

resolveNext(h, cm, rs, rr, path, excludeNames, rnd) ==
    LET r == matchRoute(rs, path)
        pool == IF r = 0 THEN cm ELSE routeChannels(h, cm, rs[r].channels)
        NotExcluded(c) == h[c].name \notin Range(excludeNames)
        filtered == Filter(pool, NotExcluded)
    IN pickFromChannels(h, rr, filtered, IF r = 0 THEN "priority" ELSE rs[r].strategy, rnd)

\* ───────────────────────── configuration ─────────────────────────
\* config.channels (validateChannel: every channel has a name, a target and >= 1 key)
ChannelConfigs ==
    << [name |-> "A", weight |-> 20, fallback |-> FALSE, keyStrategy |-> "round-robin",
        keys |-> <<"k1", "k2">>, healthCheck |-> TRUE],
       [name |-> "B", weight |-> 5, fallback |-> TRUE, keyStrategy |-> "random",
        keys |-> <<"k3">>, healthCheck |-> FALSE] >>

\* config files a reload can find: one that loads, and one whose second channel has no key
\* (validateChannel throws)
ReloadConfigs ==
    { [ channels |-> << [name |-> "B", weight |-> 20, fallback |-> FALSE, keyStrategy |-> "round-robin",
                         keys |-> <<"k7", "k8">>, healthCheck |-> TRUE],
                        [name |-> "C", weight |-> 5, fallback |-> TRUE, keyStrategy |-> "round-robin",
                         keys |-> ks, healthCheck |-> FALSE] >>,
        routes |-> << [path |-> <<"/", "v", "/", "*", "*">>, channels |-> <<"B", "C">>,
                       strategy |-> "priority"] >>,
        logLevel |-> "debug" ] : ks \in { <<"k9">>, << >> } }

ChannelNames ==
    {ChannelConfigs[i].name : i \in DOMAIN ChannelConfigs}
        \cup UNION {{cfg.channels[i].name : i \in DOMAIN cfg.channels} : cfg \in ReloadConfigs}

Strategies == {"priority", "round-robin", "lowest-latency"}

\* config.routes: one group over [A, B]. /v/** matches the request path; /o/* does not, and
\* the request then falls to the default group (all channels, priority)
RouteConfigs ==
    { << [path |-> <<"/", "v", "/", "*", "*">>, channels |-> <<"A", "B">>, strategy |-> "round-robin"] >>,
      << [path |-> <<"/", "v", "/", "*", "*">>, channels |-> <<"A", "B">>, strategy |-> "lowest-latency"] >>,
      << [path |-> <<"/", "o", "/", "*">>, channels |-> <<"B", "A">>, strategy |-> "priority"] >> }

RequestPaths == { <<"/", "v", "/", "c">> }

\* what readRequestBody resolves with; requests to the mock upstreams carry either body
RequestBodies == IF DOMAIN mock = {} THEN {"b1"} ELSE {"b1", "b2"}

RetryOnConfigs == {DefaultRetryOn, {429}}

NewKeyValues == {"k9"}

\* transport error (proxy "error" event, promise rejected) as the outcome of an attempt
TransportError == 0
NoStatus == -1

NoKey == [index |-> NoPick, value |-> ""]

NoOp == [op |-> "none", arg |-> NoPick, cursor |-> 0, len |-> 0]

\* ───────────────────────── proxy.mjs: per-request context ─────────────────────────
InitReq ==
    [ pc |-> "idle",
      path |-> <<>>,
      body |-> "",              \* the buffered request body
      attempt |-> 0,
      excludeChannels |-> <<>>,
      chan |-> NoChan,
      key |-> NoKey,
      clientGone |-> FALSE,
      responses |-> 0,          \* number of responses started toward the client (writeHead calls)
      clientStatus |-> NoStatus,
      clientBody |-> "",
      dispatches |-> 0,         \* number of proxyRequest calls
      last |-> NoStatus,        \* once done: outcome of the last attempt (status, or TransportError)
      chanFailed |-> {},        \* names of the channels that had a channel-level failure in this request
      startMap |-> <<>> ]       \* the router's channel map when the request started

\* one attempt too many
maxAttemptsOffByOne == retryCfg.maxRetries + 2

maxAttempts == retryCfg.maxRetries + 1

headersSent(rq) == rq.responses > 0

\* if (!res.headersSent) { res.writeHead(code, ...); res.end(body) }
respond(rq, code, body) ==
    IF headersSent(rq) THEN rq
    ELSE [rq EXCEPT !.responses = @ + 1, !.clientStatus = code, !.clientBody = body]

\* res.writeHead(statusCode, headers); pRes.pipe(res)   (stream branch, not guarded)
streamToClient(rq, code, body) ==
    [rq EXCEPT !.responses = @ + 1,
               !.clientStatus = IF headersSent(rq) THEN @ ELSE code,
               !.clientBody = IF headersSent(rq) THEN @ ELSE body]

\* the handler returns: the request context is dropped; what the client got, the number of
\* dispatches and the last upstream outcome are kept for the record
finish(rq, outcome) ==
    [InitReq EXCEPT !.pc = "done",
                    !.responses = rq.responses,
                    !.clientStatus = rq.clientStatus,
                    !.clientBody = rq.clientBody,
                    !.dispatches = rq.dispatches,
                    !.last = outcome]

NoPicks == [prev |-> NoPick, last |-> NoPick]

\* lastPick after a step: c/idx is the pick made in the step (c = NoChan: none); a channel
\* whose key pool (keys, cursor) the step changed otherwise starts afresh
NextLastPick(h2, c, idx) ==
    [i \in DOMAIN h2 |->
        IF i = c THEN [prev |-> lastPick[i].last, last |-> idx]
        ELSE IF i \in DOMAIN heap /\ h2[i].keys = heap[i].keys /\ h2[i].keyIndex = heap[i].keyIndex
             THEN lastPick[i]
             ELSE NoPicks]

\* logger.mjs emit(eventType, data): one event as the subscriber receives it
Event(type, id, channel, status, attempt) ==
    [type |-> type, id |-> id, channel |-> channel, status |-> status, attempt |-> attempt]

\* the subscriber after the events evs were emitted
Emit(evs) == IF obs.on THEN [obs EXCEPT !.events = @ \o evs] ELSE obs

NoObserver == [on |-> FALSE, events |-> << >>, snap |-> << >>]

NoMocks == << >>

\* no web API server, no tunnel manager, no call of the router made yet
NoApi == [authToken |-> "", uiAuthToken |-> "", log |-> << >>]
NoTunnel == [phase |-> "none"]
NoResolve == [op |-> "none"]

\* startHealthChecks(channels): a timer for every channel with healthCheck.path
startHealthChecks(h, ids) == {c \in Range(ids) : h[c].healthCheck}

Init ==
    /\ heap = [i \in DOMAIN ChannelConfigs |-> createChannel(ChannelConfigs[i])]
    /\ channelMap = [i \in DOMAIN ChannelConfigs |-> i]
    /\ routes \in RouteConfigs
    /\ rrCounters = << >>
    /\ retryCfg \in [maxRetries : 0..MaxRetriesCfg, retryOn : RetryOnConfigs]
    /\ req = [r \in 1..NumRequests |-> InitReq]
    /\ lastPick = [i \in DOMAIN ChannelConfigs |-> NoPicks]
    /\ envOps = 0
    /\ lastOp = NoOp
    /\ logLevel = "info"
    /\ healthTimers = startHealthChecks(heap, channelMap)
    /\ mock = NoMocks
    /\ obs = NoObserver
    /\ api = NoApi
    /\ tunnel = NoTunnel
    /\ picked = NoResolve

\* createServer callback up to `await readRequestBody(req)`
\* Requests are numbered in order of arrival.
Arrive(r) ==
    /\ req[r].pc = "idle"
    /\ \A q \in DOMAIN req : q < r => req[q].pc # "idle"
    /\ \E p \in RequestPaths :
          req' = [req EXCEPT ![r] = [@ EXCEPT !.pc = "buffering", !.path = p,
                                              !.startMap = channelMap]]
    /\ UNCHANGED <<heap, channelMap, routes, rrCounters, retryCfg, lastPick, envOps, lastOp, logLevel, healthTimers, mock, obs, api, tunnel, picked>>

\* res.on("close"): the client went away before the response was finished
ClientClose(r) ==
    /\ req[r].pc \in {"buffering", "upstream", "sleeping"}
    /\ ~req[r].clientGone
    /\ req' = [req EXCEPT ![r].clientGone = TRUE]
    /\ UNCHANGED <<heap, channelMap, routes, rrCounters, retryCfg, lastPick, envOps, lastOp, logLevel, healthTimers, mock, obs, api, tunnel, picked>>

\* readRequestBody rejected: BODY_TOO_LARGE -> 413, timeout or stream error -> 408
BodyFail(r) ==
    /\ req[r].pc = "buffering"
    /\ \E code \in {413, 408} :
          req' = [req EXCEPT ![r] = finish(respond(@, code, "proxy_error"), NoStatus)]
    /\ UNCHANGED <<heap, channelMap, routes, rrCounters, retryCfg, lastPick, envOps, lastOp, logLevel, healthTimers, mock, obs, api, tunnel, picked>>

\* Fallthrough guard after the while loop
\* fallthrough guard that writes nothing
fallthroughSilent(rq, outcome) == finish(rq, outcome)

fallthrough(rq, outcome) == finish(respond(rq, 502, "proxy_error"), outcome)

\* One pass of `while (attempt < maxAttempts)` from its top to `await proxyRequest(...)`,
\* for request context rq (attempt, excludeChannels as left by the previous pass)
loopTop(r, rq, rnd) ==
    IF ~(rq.attempt < maxAttempts)
    THEN /\ req' = [req EXCEPT ![r] = fallthrough(rq, NoStatus)]
         /\ UNCHANGED <<heap, rrCounters, lastPick, obs>>
    ELSE IF rq.clientGone
    THEN /\ req' = [req EXCEPT ![r] = finish(rq, NoStatus)]
         /\ UNCHANGED <<heap, rrCounters, lastPick, obs>>
    ELSE LET resolved ==
                 IF Len(rq.excludeChannels) > 0
                 THEN resolveNext(heap, channelMap, routes, rrCounters, rq.path, rq.excludeChannels, rnd)
                 ELSE resolve(heap, channelMap, routes, rrCounters, rq.path, rnd)
         IN IF resolved.chan = NoChan
            THEN /\ req' = [req EXCEPT ![r] = finish(respond(rq, 503, "proxy_error"), NoStatus)]
                 /\ heap' = resolved.heap
                 /\ rrCounters' = resolved.rr
                 /\ lastPick' = NextLastPick(resolved.heap, NoChan, NoPick)
                 /\ obs' = Emit(<<Event("request", r, "", 503, rq.attempt)>>)
            ELSE /\ req' = [req EXCEPT ![r] =
                                [rq EXCEPT !.pc = "upstream",
                                           !.chan = resolved.chan,
                                           !.key = resolved.key,
                                           !.dispatches = @ + 1]]
                 /\ heap' = resolved.heap
                 /\ rrCounters' = resolved.rr
                 /\ lastPick' = NextLastPick(resolved.heap, resolved.chan, resolved.key.index)
                 /\ obs' = obs

\* Math.random() draws: pickKey takes draw % alive.length, so every alive key can be drawn
RandomDraws == 0..(MaxKeys - 1)

\* readRequestBody resolved: first pass of the retry loop
BodyDone(r) ==
    /\ req[r].pc = "buffering"
    /\ \E rnd \in RandomDraws, b \in RequestBodies :
          loopTop(r, [req[r] EXCEPT !.body = b], rnd)
    /\ UNCHANGED <<channelMap, routes, retryCfg, envOps, lastOp, logLevel, healthTimers, mock, api, tunnel, picked>>

\* `await sleep(delay)` resolved: next pass of the retry loop
Wake(r) ==
    /\ req[r].pc = "sleeping"
    /\ \E rnd \in RandomDraws : loopTop(r, req[r], rnd)
    /\ UNCHANGED <<channelMap, routes, retryCfg, envOps, lastOp, logLevel, healthTimers, mock, api, tunnel, picked>>

\* stream branch that records a success whatever the status
UpstreamStreamWithAnyStatus(r, statusCode, elapsed) ==
    LET rq == req[r]
        c == rq.chan
        ch2 == markKeySuccess(recordSuccess(heap[c], elapsed), rq.key.index)
    IN /\ heap' = [heap EXCEPT ![c] = ch2]
       /\ req' = [req EXCEPT ![r] =
                      finish(streamToClient(rq, statusCode, "upstream-body"), statusCode)]
       /\ lastPick' = NextLastPick(heap', NoChan, NoPick)
       /\ obs' = Emit(<<Event("request", r, heap[c].name, statusCode, rq.attempt)>>)
       /\ UNCHANGED <<channelMap, routes, rrCounters, retryCfg, envOps, lastOp, logLevel, healthTimers, api, tunnel, picked>>

\* proxyRequest, stream branch (status outside the buffered set): the response callback,
\* then `if (result.success) return`
UpstreamStreamWith(r, statusCode, elapsed) ==
    LET rq == req[r]
        c == rq.chan
        ch2 == IF statusCode < 400
               THEN markKeySuccess(recordSuccess(heap[c], elapsed), rq.key.index)
               ELSE heap[c]
    IN /\ heap' = [heap EXCEPT ![c] = ch2]
       /\ req' = [req EXCEPT ![r] =
                      finish(streamToClient(rq, statusCode, "upstream-body"), statusCode)]
       /\ lastPick' = NextLastPick(heap', NoChan, NoPick)
       /\ obs' = Emit(<<Event("request", r, heap[c].name, statusCode, rq.attempt)>>)
       /\ UNCHANGED <<channelMap, routes, rrCounters, retryCfg, envOps, lastOp, logLevel, healthTimers, api, tunnel, picked>>

\* an upstream that is not one of the mocks answers with any status of the stream branch
UpstreamStream(r) ==
    /\ req[r].pc = "upstream"
    /\ heap[req[r].chan].name \notin DOMAIN mock
    /\ \E statusCode \in StreamStatuses, elapsed \in Latencies :
          UpstreamStreamWith(r, statusCode, elapsed)
    /\ UNCHANGED mock

\* body of the forwarded buffered status: result.responseBody || JSON upstream_error envelope
\* ("" stands for an empty or null responseBody)
forwardBody(responseBody) == IF responseBody = "" THEN "upstream_error" ELSE responseBody

\* a buffered branch that also passes the upstream status on to the client
bufferUpstreamForwards(rq, statusCode, responseBody) == streamToClient(rq, statusCode, responseBody)

\* proxyRequest, buffered branch: the upstream body is collected and the promise resolves;
\* nothing is written to the client
bufferUpstream(rq, statusCode, responseBody) == rq

\* a try branch that forgets emit("retry", ...)
classifySilent(rq, ch, statusCode, responseBody) ==
    IF ~shouldRetry(statusCode) /\ ~isKeyFailure(statusCode)
    THEN [rq |-> finish(respond(rq, statusCode, forwardBody(responseBody)), statusCode),
          ch |-> ch, ev |-> << >>]
    ELSE LET ch1 == IF isKeyFailure(statusCode) THEN markKeyFailed(ch, rq.key.index) ELSE ch
             ch2 == IF isChannelFailure(statusCode) THEN recordFailure(ch1) ELSE ch1
             ch3 == IF statusCode = 429 THEN markKeyFailed(ch2, rq.key.index) ELSE ch2
             rq1 == IF isChannelFailure(statusCode)
                    THEN [rq EXCEPT !.excludeChannels = Append(@, ch.name),
                                    !.chanFailed = @ \cup {ch.name}]
                    ELSE rq
             rq2 == [rq1 EXCEPT !.attempt = @ + 1]
         IN IF rq2.attempt < maxAttempts
            THEN [rq |-> [rq2 EXCEPT !.pc = "sleeping"], ch |-> ch3, ev |-> << >>]
            ELSE [rq |-> fallthrough(rq2, statusCode), ch |-> ch3, ev |-> << >>]

\* createUnifiedProxy, try branch after `await proxyRequest` returned
\* { success: false, statusCode, responseBody }: the request context and the channel
\* afterwards, and the events emitted (their id is filled in by the caller)
classify(rq, ch, statusCode, responseBody) ==
    IF ~shouldRetry(statusCode) /\ ~isKeyFailure(statusCode)
    THEN [rq |-> finish(respond(rq, statusCode, forwardBody(responseBody)), statusCode),
          ch |-> ch, ev |-> << >>]
    ELSE LET ch1 == IF isKeyFailure(statusCode) THEN markKeyFailed(ch, rq.key.index) ELSE ch
             ch2 == IF isChannelFailure(statusCode) THEN recordFailure(ch1) ELSE ch1
             ch3 == IF statusCode = 429 THEN markKeyFailed(ch2, rq.key.index) ELSE ch2
             rq1 == IF isChannelFailure(statusCode)
                    THEN [rq EXCEPT !.excludeChannels = Append(@, ch.name),
                                    !.chanFailed = @ \cup {ch.name}]
                    ELSE rq
             rq2 == [rq1 EXCEPT !.attempt = @ + 1]
         IN IF rq2.attempt < maxAttempts
            THEN [rq |-> [rq2 EXCEPT !.pc = "sleeping"], ch |-> ch3,
                  ev |-> <<Event("retry", 0, ch.name, statusCode, rq2.attempt)>>]
            ELSE [rq |-> fallthrough(rq2, statusCode), ch |-> ch3, ev |-> << >>]

\* the events evs with the request id r
WithId(evs, r) == [i \in DOMAIN evs |-> [evs[i] EXCEPT !.id = r]]

\* proxyRequest, buffered branch (429/401/403/502/503/504): pRes "end" (or pRes "error",
\* which resolves with responseBody null) and the caller's classification
UpstreamBufferedWith(r, statusCode) ==
    LET rq == bufferUpstream(req[r], statusCode, "upstream-body")
        c == rq.chan
        res == classify(rq, heap[c], statusCode, "upstream-body")
    IN /\ heap' = [heap EXCEPT ![c] = res.ch]
       /\ req' = [req EXCEPT ![r] = res.rq]
       /\ lastPick' = NextLastPick(heap', NoChan, NoPick)
       /\ obs' = Emit(WithId(res.ev, r))
       /\ UNCHANGED <<channelMap, routes, rrCounters, retryCfg, envOps, lastOp, logLevel, healthTimers, api, tunnel, picked>>

\* an upstream that is not one of the mocks answers with any status of the buffered branch
UpstreamBuffered(r) ==
    /\ req[r].pc = "upstream"
    /\ heap[req[r].chan].name \notin DOMAIN mock
    /\ \E statusCode \in BufferedStatuses : UpstreamBufferedWith(r, statusCode)
    /\ UNCHANGED mock

\* a catch branch that forgets excludeChannels.push(channel.name)
catchErrorNoExclude(rq, ch) ==
    LET rq1 == [rq EXCEPT !.chanFailed = @ \cup {ch.name}, !.attempt = @ + 1]
    IN IF rq1.attempt < retryCfg.maxRetries + 1
       THEN [rq |-> [rq1 EXCEPT !.pc = "sleeping"], ch |-> recordFailure(ch),
             ev |-> <<Event("retry", 0, ch.name, TransportError, rq1.attempt)>>]
       ELSE [rq |-> finish(respond(rq1, 502, "proxy_error"), TransportError), ch |-> recordFailure(ch),
             ev |-> <<Event("request", 0, ch.name, 502, rq1.attempt)>>]

\* createUnifiedProxy, catch branch: proxyRequest rejected (proxy "error", upstream timeout)
catchError(rq, ch) ==
    LET rq1 == [rq EXCEPT !.excludeChannels = Append(@, ch.name),
                          !.chanFailed = @ \cup {ch.name},
                          !.attempt = @ + 1]
    IN IF rq1.attempt < maxAttempts
       THEN [rq |-> [rq1 EXCEPT !.pc = "sleeping"], ch |-> recordFailure(ch),
             ev |-> <<Event("retry", 0, ch.name, TransportError, rq1.attempt)>>]
       ELSE [rq |-> finish(respond(rq1, 502, "proxy_error"), TransportError), ch |-> recordFailure(ch),
             ev |-> <<Event("request", 0, ch.name, 502, rq1.attempt)>>]

UpstreamError(r) ==
    /\ req[r].pc = "upstream"
    /\ heap[req[r].chan].name \notin DOMAIN mock
    /\ LET rq == req[r]
           c == rq.chan
           res == catchError(rq, heap[c])
       IN /\ heap' = [heap EXCEPT ![c] = res.ch]
          /\ req' = [req EXCEPT ![r] = res.rq]
          /\ lastPick' = NextLastPick(heap', NoChan, NoPick)
          /\ obs' = Emit(WithId(res.ev, r))
    /\ UNCHANGED <<channelMap, routes, rrCounters, retryCfg, envOps, lastOp, logLevel, healthTimers, mock, api, tunnel, picked>>

\* ───────────────────────── test/mock-api.mjs: mock upstream ─────────────────────────
\* forceStatusCount = Infinity
Infinity == 1000

\* createMockApi(opts); forKey restricts the forced status to requests carrying that
\* credential ("": every request)
createMockApi(forceStatus, forceStatusCount, forKey) ==
    [forceStatus |-> forceStatus, forceStatusCount |-> forceStatusCount, forKey |-> forKey,
     forcedSoFar |-> 0, requests |-> << >>]

\* whether the mock answers this request with its forced status
forced(m, keyValue) ==
    /\ m.forceStatus > 0
    /\ m.forcedSoFar < m.forceStatusCount
    /\ (m.forKey = "" \/ m.forKey = keyValue)

\* the mock's request handler followed by the proxy's response callback: the request is
\* logged (with the status it is answered with) and answered
MockAnswer(r) ==
    /\ req[r].pc = "upstream"
    /\ heap[req[r].chan].name \in DOMAIN mock
    /\ LET rq == req[r]
           n == heap[rq.chan].name
           m == mock[n]
           st == IF forced(m, rq.key.value) THEN m.forceStatus ELSE 200
       IN /\ mock' = [mock EXCEPT ![n] =
                        [m EXCEPT !.requests = Append(@, [id |-> r, key |-> rq.key.value,
                                                          body |-> rq.body, status |-> st]),
                                  !.forcedSoFar = IF forced(m, rq.key.value) THEN @ + 1 ELSE @]]
          /\ IF st \in BufferedStatuses
             THEN UpstreamBufferedWith(r, st)
             ELSE \E elapsed \in Latencies : UpstreamStreamWith(r, st, elapsed)

\* ───────────────────────── api.mjs: management operations ─────────────────────────
\* handleToggle that switches the channel off whatever it was
toggleEnabledOff(ch) == [ch EXCEPT !.enabled = FALSE]

\* ch.enabled = !ch.enabled
toggleEnabled(ch) == [ch EXCEPT !.enabled = ~@]

\* handleToggle
Toggle(name) ==
    /\ envOps < MaxEnvOps
    /\ LET c == getChannel(heap, channelMap, name)
       IN /\ c # NoChan
          /\ heap' = [heap EXCEPT ![c] = toggleEnabled(@)]
          /\ obs' = Emit(<<Event("channel_toggle", 0, name, NoStatus, 0)>>)
    /\ envOps' = envOps + 1
    /\ UNCHANGED <<channelMap, routes, rrCounters, retryCfg, req, lastPick, lastOp, logLevel, healthTimers, mock, api, tunnel, picked>>

\* handleAddKey
AddKey(name) ==
    /\ envOps < MaxEnvOps
    /\ LET c == getChannel(heap, channelMap, name)
       IN /\ c # NoChan
          /\ Len(heap[c].keys) < MaxKeys
          /\ \E k \in NewKeyValues : heap' = [heap EXCEPT ![c] = addKey(@, k)]
    /\ envOps' = envOps + 1
    /\ lastPick' = NextLastPick(heap', NoChan, NoPick)
    /\ UNCHANGED <<channelMap, routes, rrCounters, retryCfg, req, lastOp, logLevel, healthTimers, mock, obs, api, tunnel, picked>>

\* handleDeleteKey: any index the URL can carry, valid or not
RemoveKey(name) ==
    /\ envOps < MaxEnvOps
    /\ LET c == getChannel(heap, channelMap, name)
       IN /\ c # NoChan
          /\ \E i \in 0..MaxKeys : heap' = [heap EXCEPT ![c] = removeKey(@, i)]
    /\ envOps' = envOps + 1
    /\ lastPick' = NextLastPick(heap', NoChan, NoPick)
    /\ UNCHANGED <<channelMap, routes, rrCounters, retryCfg, req, lastOp, logLevel, healthTimers, mock, obs, api, tunnel, picked>>

\* ───────────────────────── health.mjs: health prober ─────────────────────────
handleCheckFailure(ch) ==
    LET ch1 == [ch EXCEPT !.consecutiveFails = @ + 1]
    IN IF ch1.consecutiveFails >= UNHEALTHY_THRESHOLD
       THEN setHealth(ch1, "unhealthy", NoLatency)
       ELSE ch1

\* checkChannel response callback with a 2xx/3xx status: the channel afterwards and the
\* events emitted
checkChannelOk(ch, elapsed) ==
    [ch |-> setHealth(ch, "healthy", elapsed),
     ev |-> IF ch.health = "unhealthy"
            THEN <<Event("health", 0, ch.name, NoStatus, 0)>>
            ELSE << >>]

\* handleCheckFailure with the event it emits on the boundary
checkChannelFailed(ch) ==
    [ch |-> handleCheckFailure(ch),
     ev |-> IF ch.consecutiveFails + 1 >= UNHEALTHY_THRESHOLD /\ ch.health # "unhealthy"
            THEN <<Event("health", 0, ch.name, TransportError, 0)>>
            ELSE << >>]

\* checkChannel response callback with a 2xx/3xx status
ProbeSuccess(c) ==
    /\ envOps < MaxEnvOps
    /\ c \in healthTimers
    /\ \E elapsed \in Latencies :
          /\ heap' = [heap EXCEPT ![c] = checkChannelOk(@, elapsed).ch]
          /\ obs' = Emit(checkChannelOk(heap[c], elapsed).ev)
    /\ envOps' = envOps + 1
    /\ UNCHANGED <<channelMap, routes, rrCounters, retryCfg, req, lastPick, lastOp, logLevel, healthTimers, mock, api, tunnel, picked>>

\* checkChannel response callback with another status, "timeout" or "error"
ProbeFailure(c) ==
    /\ envOps < MaxEnvOps
    /\ c \in healthTimers
    /\ heap' = [heap EXCEPT ![c] = checkChannelFailed(@).ch]
    /\ obs' = Emit(checkChannelFailed(heap[c]).ev)
    /\ envOps' = envOps + 1
    /\ UNCHANGED <<channelMap, routes, rrCounters, retryCfg, req, lastPick, lastOp, logLevel, healthTimers, mock, api, tunnel, picked>>

\* ───────────────────────── config.mjs / index.mjs: hot reload ─────────────────────────
\* validateChannel: name and at least one key (the target is not part of the model)
validateChannel(cfg) == cfg.name # "" /\ Len(cfg.keys) >= 1

\* loadConfig(path) returns the configuration or throws
loadConfigThrows(cfg) == \E i \in DOMAIN cfg.channels : ~validateChannel(cfg.channels[i])

\* router.update: channelMap.clear(), then channelMap.set(ch.name, ch) for each new channel
\* in order; a later channel of the same name replaces the earlier one in its position
updateChannelMap(h, ids) ==
    LET IsFirst(i) == \A j \in 1..(i - 1) : h[ids[j]].name # h[ids[i]].name
        LastOf(i) == ids[CHOOSE j \in DOMAIN ids :
                            /\ h[ids[j]].name = h[ids[i]].name
                            /\ \A k \in DOMAIN ids : k > j => h[ids[k]].name # h[ids[i]].name]
        firsts == SelectSeq([i \in DOMAIN ids |-> i], IsFirst)
    IN [i \in DOMAIN firsts |-> LastOf(firsts[i])]

\* the onChange callback of watchConfig and the config_reload_request subscriber, after a
\* successful loadConfig: log level, new channel objects, router.update, health checks
applyConfig(cfg) ==
    LET newIds == [i \in DOMAIN cfg.channels |-> Len(heap) + i]
    IN /\ logLevel' = cfg.logLevel
       /\ heap' = heap \o [i \in DOMAIN cfg.channels |-> createChannel(cfg.channels[i])]
       /\ channelMap' = updateChannelMap(heap', newIds)
       /\ routes' = cfg.routes
       /\ healthTimers' = startHealthChecks(heap', newIds)
       /\ lastPick' = NextLastPick(heap', NoChan, NoPick)

\* what lastOp records of a reload
ReloadOp(op) == [NoOp EXCEPT !.op = op]

\* a reload that sets the log level before the new configuration is validated
ReloadEager ==
    /\ envOps < MaxEnvOps
    /\ envOps' = envOps + 1
    /\ \E cfg \in ReloadConfigs :
          IF loadConfigThrows(cfg)
          THEN /\ logLevel' = cfg.logLevel
               /\ lastOp' = ReloadOp("reloadFailed")
               /\ UNCHANGED <<heap, channelMap, routes, healthTimers, lastPick>>
          ELSE /\ lastOp' = ReloadOp("reload")
               /\ applyConfig(cfg)
    /\ UNCHANGED <<rrCounters, retryCfg, req, mock, obs, api, tunnel, picked>>

\* a reload, triggered by the file watcher or by config_reload_request: loadConfig in a try
\* block whose catch only logs
Reload ==
    /\ envOps < MaxEnvOps
    /\ envOps' = envOps + 1
    /\ \E cfg \in ReloadConfigs :
          IF loadConfigThrows(cfg)
          THEN /\ lastOp' = ReloadOp("reloadFailed")
               /\ UNCHANGED <<logLevel, heap, channelMap, routes, healthTimers, lastPick>>
          ELSE /\ lastOp' = ReloadOp("reload")
               /\ applyConfig(cfg)
    /\ UNCHANGED <<rrCounters, retryCfg, req, mock, obs, api, tunnel, picked>>

Next ==
    \/ \E r \in DOMAIN req : Arrive(r)
    \/ \E r \in DOMAIN req : ClientClose(r)
    \/ \E r \in DOMAIN req : BodyFail(r)
    \/ \E r \in DOMAIN req : BodyDone(r)
    \/ \E r \in DOMAIN req : Wake(r)
    \/ \E r \in DOMAIN req : UpstreamStream(r)
    \/ \E r \in DOMAIN req : UpstreamBuffered(r)
    \/ \E r \in DOMAIN req : UpstreamError(r)
    \/ \E n \in ChannelNames : Toggle(n)
    \/ \E n \in ChannelNames : AddKey(n)
    \/ \E n \in ChannelNames : RemoveKey(n)
    \/ \E c \in DOMAIN heap : ProbeSuccess(c)
    \/ \E c \in DOMAIN heap : ProbeFailure(c)
    \/ Reload

Spec == Init /\ [][Next]_vars

\* ───────────────────────── key pool of one channel, operations in any order ─────────────────────────
\* channel.mjs exports pickKey, markKeyFailed, markKeySuccess, addKey and removeKey; SpecPool
\* applies them to one channel in every order and with every index, valid or not.
PoolConfigs ==
    { [name |-> "P", weight |-> 10, fallback |-> FALSE, keyStrategy |-> ks,
       keys |-> <<"k1", "k2", "k3">>, healthCheck |-> FALSE] : ks \in {"round-robin", "random"} }

InitPool ==
    /\ \E cfg \in PoolConfigs : heap = <<createChannel(cfg)>>
    /\ channelMap = <<1>>
    /\ routes = << >>
    /\ rrCounters = << >>
    /\ retryCfg = [maxRetries |-> 0, retryOn |-> DefaultRetryOn]
    /\ req = << >>
    /\ lastPick = <<NoPicks>>
    /\ envOps = 0
    /\ lastOp = NoOp
    /\ logLevel = "info"
    /\ healthTimers = {}
    /\ mock = NoMocks
    /\ obs = NoObserver
    /\ api = NoApi
    /\ tunnel = NoTunnel
    /\ picked = NoResolve

PoolOp(op, arg, ch2) ==
    /\ envOps < MaxPoolOps
    /\ envOps' = envOps + 1
    /\ heap' = [heap EXCEPT ![1] = ch2]
    /\ lastOp' = [op |-> op, arg |-> arg, cursor |-> heap[1].keyIndex, len |-> Len(heap[1].keys)]
    /\ UNCHANGED <<channelMap, routes, rrCounters, retryCfg, req, logLevel, healthTimers, mock, obs, api, tunnel, picked>>

PoolPickKey ==
    \E rnd \in RandomDraws :
        LET pk == pickKey(heap[1], rnd)
        IN /\ PoolOp("pickKey", pk.index, pk.ch)
           /\ lastPick' = NextLastPick(heap', IF pk.index = NoPick THEN NoChan ELSE 1, pk.index)

PoolMarkKeyFailed ==
    \E i \in 0..MaxKeys :
        /\ PoolOp("markKeyFailed", i, markKeyFailed(heap[1], i))
        /\ lastPick' = NextLastPick(heap', NoChan, NoPick)

PoolMarkKeySuccess ==
    \E i \in 0..MaxKeys :
        /\ PoolOp("markKeySuccess", i, markKeySuccess(heap[1], i))
        /\ lastPick' = NextLastPick(heap', NoChan, NoPick)

PoolAddKey ==
    /\ Len(heap[1].keys) < MaxKeys
    /\ \E k \in NewKeyValues : PoolOp("addKey", Len(heap[1].keys), addKey(heap[1], k))
    /\ lastPick' = NextLastPick(heap', NoChan, NoPick)

PoolRemoveKey ==
    \E i \in 0..MaxKeys :
        /\ PoolOp("removeKey", i, removeKey(heap[1], i))
        /\ lastPick' = NextLastPick(heap', NoChan, NoPick)

NextPool ==
    \/ PoolPickKey
    \/ PoolMarkKeyFailed
    \/ PoolMarkKeySuccess
    \/ PoolAddKey
    \/ PoolRemoveKey

SpecPool == InitPool /\ [][NextPool]_vars

\* ───────────────────────── test/run.mjs: successive requests against mock upstreams ─────────────────────────
\* The test runner sends one request at a time to a proxy whose channels point at mock
\* upstreams, after setForceStatus on the mocks; it subscribes to the events.
MaxSeqRequests == 4
MaxMockRetries == 2

MockKeys == <<"k1", "k2", "k3", "k4", "k5", "k6">>

\* test.config.yaml variants: the two-channel configuration (primary A, fallback B), and a
\* single channel P with 1..MaxKeys credentials and either key strategy
MockChannelConfigs ==
    {ChannelConfigs}
        \cup { << [name |-> "P", weight |-> 10, fallback |-> FALSE, keyStrategy |-> ks,
                   keys |-> [i \in 1..n |-> MockKeys[i]], healthCheck |-> FALSE] >> :
                 ks \in {"round-robin", "random"}, n \in 1..MaxKeys }

\* setForceStatus(status, count) on a mock, for every credential or for k1 only
MockBehaviours ==
    {createMockApi(st, n, k) : st \in {0, 429, 403, 502}, n \in {1, Infinity}, k \in {"", "k1"}}

InitMock ==
    /\ \E cfgs \in MockChannelConfigs :
          /\ heap = [i \in DOMAIN cfgs |-> createChannel(cfgs[i])]
          /\ channelMap = [i \in DOMAIN cfgs |-> i]
          /\ routes = << [path |-> <<"/", "v", "/", "*", "*">>,
                          channels |-> [i \in DOMAIN cfgs |-> cfgs[i].name],
                          strategy |-> "priority"] >>
          /\ lastPick = [i \in DOMAIN cfgs |-> NoPicks]
          /\ mock \in [{cfgs[i].name : i \in DOMAIN cfgs} -> MockBehaviours]
    /\ rrCounters = << >>
    /\ retryCfg \in [maxRetries : 0..MaxMockRetries, retryOn : {DefaultRetryOn}]
    /\ req = [r \in 1..MaxSeqRequests |-> InitReq]
    /\ envOps = 0
    /\ lastOp = NoOp
    /\ logLevel = "info"
    /\ healthTimers = {}
    /\ obs = [on |-> TRUE, events |-> << >>, snap |-> heap]
    /\ api = NoApi
    /\ tunnel = NoTunnel
    /\ picked = NoResolve

\* the runner sends its next request once the previous one was answered; it first empties
\* the mocks' request logs (resetRequests) and its event list, and notes the channel state
SeqArrive(r) ==
    /\ req[r].pc = "idle"
    /\ \A q \in DOMAIN req : q < r => req[q].pc = "done"
    /\ \E p \in RequestPaths :
          req' = [req EXCEPT ![r] = [@ EXCEPT !.pc = "buffering", !.path = p,
                                              !.startMap = channelMap]]
    /\ mock' = [n \in DOMAIN mock |-> [mock[n] EXCEPT !.requests = << >>]]
    /\ obs' = [obs EXCEPT !.events = << >>, !.snap = heap]
    /\ UNCHANGED <<heap, channelMap, routes, rrCounters, retryCfg, lastPick, envOps, lastOp, logLevel, healthTimers, api, tunnel, picked>>

NextMock ==
    \/ \E r \in DOMAIN req : SeqArrive(r)
    \/ \E r \in DOMAIN req : BodyDone(r)
    \/ \E r \in DOMAIN req : Wake(r)
    \/ \E r \in DOMAIN req : MockAnswer(r)

SpecMock == InitMock /\ [][NextMock]_vars


\* ───────────────────────── api.mjs: the web API server ─────────────────────────
\* SpecApi: a client sends requests to the API server of a started gateway, one after the
\* other, with or without credentials.
MaxApiCalls == 3

\* no token: an absent header, query parameter, option or environment variable
NoToken == ""

\* what main passes to createApiServer: port and host, and no token
mainApiOpts(config) == [token |-> NoToken]

\* createApiServer: authToken = opts.token || process.env.AI_TUNNEL_API_TOKEN || null
createApiServer(opts, envToken) == IF opts.token # NoToken THEN opts.token ELSE envToken

\* the Authorization headers and ?token= parameters a client sends
ApiCredentials ==
    { [scheme |-> "", header |-> NoToken, query |-> NoToken],
      [scheme |-> "Bearer", header |-> "secret", query |-> NoToken],
      [scheme |-> "Bearer", header |-> "wrong", query |-> NoToken],
      [scheme |-> "", header |-> NoToken, query |-> "secret"] }

\* req.headers.authorization?.replace(/^Bearer\s+/i, ""): the header without its scheme
\* (undefined, here NoToken, when the header is absent)
provided(cred) == cred.header

\* the check at the top of the request listener: TRUE when the request is let through
authorized(cred) == api.authToken = NoToken \/ provided(cred) = api.authToken

\* channelToJSON
channelToJSON(ch) ==
    [name |-> ch.name, enabled |-> ch.enabled, health |-> ch.health, keys |-> keyStats(ch)]

\* router.getAllChannels().map(channelToJSON)
listChannels(h, cm) == [i \in DOMAIN cm |-> channelToJSON(h[cm[i]])]

\* json(res, status, body), as the client receives it
ApiAnswer(op, name, cred, status, body) ==
    [op |-> op, name |-> name, cred |-> cred, status |-> status, body |-> body]

Answered(e) == api' = [api EXCEPT !.log = Append(@, e)]

ApiNames == ChannelNames \cup {"Z"}

InitApi ==
    /\ heap = [i \in DOMAIN ChannelConfigs |-> createChannel(ChannelConfigs[i])]
    /\ channelMap = [i \in DOMAIN ChannelConfigs |-> i]
    /\ routes = << >>
    /\ rrCounters = << >>
    /\ retryCfg = [maxRetries |-> 0, retryOn |-> DefaultRetryOn]
    /\ req = << >>
    /\ lastPick = [i \in DOMAIN ChannelConfigs |-> NoPicks]
    /\ envOps = 0
    /\ lastOp = NoOp
    /\ logLevel = "info"
    /\ healthTimers = startHealthChecks(heap, channelMap)
    /\ mock = NoMocks
    /\ obs = NoObserver
    /\ \E uiAuthToken \in {NoToken, "secret"}, envToken \in {NoToken, "secret"} :
          api = [authToken |-> createApiServer(mainApiOpts([uiAuthToken |-> uiAuthToken]), envToken),
                 uiAuthToken |-> uiAuthToken,
                 log |-> << >>]
    /\ tunnel = NoTunnel
    /\ picked = NoResolve

\* POST /api/channels/:name/toggle
ApiToggle(name, cred) ==
    /\ Len(api.log) < MaxApiCalls
    /\ IF ~authorized(cred)
       THEN /\ Answered(ApiAnswer("toggle", name, cred, 401, "Unauthorized"))
            /\ UNCHANGED <<heap, obs>>
       ELSE LET c == getChannel(heap, channelMap, name)
            IN IF c = NoChan
               THEN /\ Answered(ApiAnswer("toggle", name, cred, 404, "not found"))
                    /\ UNCHANGED <<heap, obs>>
               ELSE /\ heap' = [heap EXCEPT ![c] = toggleEnabled(@)]
                    /\ obs' = Emit(<<Event("channel_toggle", 0, name, NoStatus, 0)>>)
                    /\ Answered(ApiAnswer("toggle", name, cred, 200, channelToJSON(heap'[c])))
    /\ UNCHANGED <<channelMap, routes, rrCounters, retryCfg, req, lastPick, envOps, lastOp,
                   logLevel, healthTimers, mock, tunnel, picked>>

\* GET /api/channels
ApiListChannels(cred) ==
    /\ Len(api.log) < MaxApiCalls
    /\ IF ~authorized(cred)
       THEN Answered(ApiAnswer("list", "", cred, 401, "Unauthorized"))
       ELSE Answered(ApiAnswer("list", "", cred, 200, listChannels(heap, channelMap)))
    /\ UNCHANGED <<heap, channelMap, routes, rrCounters, retryCfg, req, lastPick, envOps, lastOp,
                   logLevel, healthTimers, mock, obs, tunnel, picked>>

\* GET /api/logs: the SSE stream starts with status 200
ApiLogs(cred) ==
    /\ Len(api.log) < MaxApiCalls
    /\ IF ~authorized(cred)
       THEN Answered(ApiAnswer("logs", "", cred, 401, "Unauthorized"))
       ELSE Answered(ApiAnswer("logs", "", cred, 200, "event-stream"))
    /\ UNCHANGED <<heap, channelMap, routes, rrCounters, retryCfg, req, lastPick, envOps, lastOp,
                   logLevel, healthTimers, mock, obs, tunnel, picked>>

NextApi ==
    \/ \E name \in ApiNames, cred \in ApiCredentials : ApiToggle(name, cred)
    \/ \E cred \in ApiCredentials : ApiListChannels(cred)
    \/ \E cred \in ApiCredentials : ApiLogs(cred)

SpecApi == InitApi /\ [][NextApi]_vars


\* ───────────────────────── tunnel.mjs: SSH reverse-tunnel manager ─────────────────────────
\* SpecTunnel: main starts the tunnel manager for 1..MaxSites tunnelled channels; the SSH
\* client (ssh2) reports ready, error and close; the operator may stop the process.
MaxSites == 2

\* the closure of createTunnelManager before connect() is called, with main's view of it:
\*   client          state of the latest ssh2 Client object
\*   conn            the closure's conn is not null
\*   pending         forwardIn callbacks still awaited by the ready handler
\*   promise         the promise createTunnelManager returned to main, which is the promise
\*                   of the first connect(); initial: the latest Client is the first one
\*   tunnelShutdown  main holds the manager's shutdown function
\*   stopping        main's signal handler has run; exited: process.exit was called
\*   last            the latest event; lostLink: a close not caused by shutdown has happened
createTunnelManager(nSites) ==
    [ sites |-> nSites, client |-> "none", conn |-> FALSE, pending |-> 0,
      destroyed |-> FALSE, reconnectTimer |-> FALSE,
      promise |-> "pending", initial |-> TRUE, tunnelShutdown |-> FALSE,
      stopping |-> FALSE, exited |-> FALSE, last |-> "none", lostLink |-> FALSE ]

\* reject(err): of the promise given to main when the client is the first one (main's catch
\* leaves tunnelShutdown null), of a promise whose rejection is only logged otherwise
reject(t) ==
    IF t.initial /\ t.promise = "pending" THEN [t EXCEPT !.promise = "rejected"] ELSE t

\* resolveP({ conn, shutdown }); main stores shutdown in tunnelShutdown
resolveP(t) ==
    IF t.initial /\ t.promise = "pending"
    THEN [t EXCEPT !.promise = "resolved", !.tunnelShutdown = TRUE]
    ELSE t

\* connect(): a new Client with its handlers; the private key is read, and when that throws
\* the promise is rejected and conn.connect is not called
connect(t, keyReadable) ==
    LET t1 == [t EXCEPT !.conn = TRUE, !.pending = 0, !.last = "connect"]
    IN IF keyReadable
       THEN [t1 EXCEPT !.client = "connecting"]
       ELSE reject([t1 EXCEPT !.client = "unconnected"])

\* conn.on("ready"): one forwardIn request per site
onReady(t) == [t EXCEPT !.client = "ready", !.pending = t.sites, !.last = "ready"]

\* a forwardIn callback: if (--pending === 0) resolveP(...)
onForwarded(t) ==
    LET t1 == [t EXCEPT !.pending = @ - 1, !.last = "forward"]
    IN IF t1.pending = 0 THEN resolveP(t1) ELSE t1

\* conn.on("error")
onError(t) == reject([t EXCEPT !.client = "errored", !.last = "error"])

\* conn.on("close"): if (destroyed) return; reconnectTimer = setTimeout(...)
onClose(t) ==
    LET t1 == [t EXCEPT !.client = "closed", !.last = "close"]
    IN IF t.destroyed THEN t1
       ELSE [t1 EXCEPT !.reconnectTimer = TRUE, !.lostLink = TRUE]

\* the reconnect timer's callback: if (!destroyed) connect().catch(...)
onTimer(t, keyReadable) ==
    LET t1 == [t EXCEPT !.reconnectTimer = FALSE, !.initial = FALSE, !.last = "timer"]
    IN IF ~t.destroyed THEN connect(t1, keyReadable) ELSE t1

\* shutdown(): destroyed = true; clearTimeout(reconnectTimer); conn.end(); conn = null
shutdown(t) ==
    [t EXCEPT !.destroyed = TRUE,
              !.reconnectTimer = FALSE,
              !.client = IF t.conn /\ @ \in {"connecting", "ready", "errored"} THEN "ending" ELSE @,
              !.conn = FALSE]

\* main's signal handler: if (tunnelShutdown) tunnelShutdown()
mainShutdown(t) ==
    LET t1 == [t EXCEPT !.stopping = TRUE, !.last = "shutdown"]
    IN IF t.tunnelShutdown THEN shutdown(t1) ELSE t1

OthersUnchanged ==
    UNCHANGED <<heap, channelMap, routes, rrCounters, retryCfg, req, lastPick, envOps, lastOp,
                logLevel, healthTimers, mock, obs, api, picked>>

InitTunnel ==
    /\ heap = [i \in DOMAIN ChannelConfigs |-> createChannel(ChannelConfigs[i])]
    /\ channelMap = [i \in DOMAIN ChannelConfigs |-> i]
    /\ routes = << >>
    /\ rrCounters = << >>
    /\ retryCfg = [maxRetries |-> 0, retryOn |-> DefaultRetryOn]
    /\ req = << >>
    /\ lastPick = [i \in DOMAIN ChannelConfigs |-> NoPicks]
    /\ envOps = 0
    /\ lastOp = NoOp
    /\ logLevel = "info"
    /\ healthTimers = {}
    /\ mock = NoMocks
    /\ obs = NoObserver
    /\ api = NoApi
    /\ \E nSites \in 1..MaxSites, keyReadable \in BOOLEAN :
          tunnel = connect(createTunnelManager(nSites), keyReadable)
    /\ picked = NoResolve

\* the SSH handshake and authentication succeeded
TunnelReady ==
    /\ ~tunnel.exited
    /\ tunnel.client = "connecting"
    /\ tunnel' = onReady(tunnel)
    /\ OthersUnchanged

\* the server answered one forwardIn request
TunnelForwarded ==
    /\ ~tunnel.exited
    /\ tunnel.client = "ready"
    /\ tunnel.pending > 0
    /\ tunnel' = onForwarded(tunnel)
    /\ OthersUnchanged

\* the connection attempt or the session failed; ssh2 closes the client afterwards
TunnelError ==
    /\ ~tunnel.exited
    /\ tunnel.client \in {"connecting", "ready"}
    /\ tunnel' = onError(tunnel)
    /\ OthersUnchanged

\* the client's socket closed: after an error, after the session dropped, or after conn.end()
TunnelClose ==
    /\ ~tunnel.exited
    /\ tunnel.client \in {"ready", "errored", "ending"}
    /\ tunnel' = onClose(tunnel)
    /\ OthersUnchanged

\* reconnectInterval ms have passed
TunnelTimer ==
    /\ ~tunnel.exited
    /\ tunnel.reconnectTimer
    /\ \E keyReadable \in BOOLEAN : tunnel' = onTimer(tunnel, keyReadable)
    /\ OthersUnchanged

\* SIGINT / SIGTERM, once main has registered its handlers (after the await of
\* createTunnelManager)
MainShutdown ==
    /\ ~tunnel.exited
    /\ ~tunnel.stopping
    /\ tunnel.promise # "pending"
    /\ tunnel' = mainShutdown(tunnel)
    /\ OthersUnchanged

\* the proxy and API servers have closed: process.exit(0)
ProcessExit ==
    /\ ~tunnel.exited
    /\ tunnel.stopping
    /\ tunnel' = [tunnel EXCEPT !.exited = TRUE, !.last = "exit"]
    /\ OthersUnchanged

NextTunnel ==
    \/ TunnelReady
    \/ TunnelForwarded
    \/ TunnelError
    \/ TunnelClose
    \/ TunnelTimer
    \/ MainShutdown
    \/ ProcessExit

SpecTunnel == InitTunnel /\ [][NextTunnel]_vars

\* timers fire, a connection attempt ends (readyTimeout), an errored or ended client closes
SpecTunnelLive ==
    /\ SpecTunnel
    /\ WF_vars(TunnelTimer)
    /\ WF_vars(TunnelReady \/ TunnelError)
    /\ WF_vars(tunnel.client \in {"errored", "ending"} /\ TunnelClose)


\* ───────────────────────── the router alone ─────────────────────────
\* createRouter(channels, routes) over three channels in every combination of conditions the
\* channel operations produce; SpecRouter calls resolve and resolveNext on it.
MaxRouterCalls == 2

RouterNames == <<"A", "B", "C">>

\* what has happened to a channel before the router is asked: nothing, toggled off, demoted
\* by the health checker, all keys disabled, the first key disabled
RouterConditions == {"ok", "disabled", "unhealthy", "nokeys", "onedead"}

RouterWeights == {10, 20}

RouterLatencies == Latencies \cup {NoLatency}

routerConfig(name, w, fb) ==
    [name |-> name, weight |-> w, fallback |-> fb,
     keyStrategy |-> IF name = "B" THEN "random" ELSE "round-robin",
     keys |-> <<"k1", "k2">>, healthCheck |-> FALSE]

routerChannel(cfg, cond, lat) ==
    LET c0 == createChannel(cfg)
        c1 == IF lat = NoLatency THEN c0 ELSE setHealth(c0, "healthy", lat)
        dead(c, i) == markKeyFailed(markKeyFailed(markKeyFailed(c, i), i), i)
    IN CASE cond = "ok" -> c1
         [] cond = "disabled" -> toggleEnabled(c1)
         [] cond = "unhealthy" -> setHealth(c1, "unhealthy", NoLatency)
         [] cond = "nokeys" -> dead(dead(c1, 0), 1)
         [] cond = "onedead" -> dead(c1, 0)

\* config.routes of the router: one group over [A, B, C], or none (default group)
routerRoutes(strategy, routed) ==
    IF routed
    THEN << [path |-> <<"/", "v", "/", "*", "*">>, channels |-> RouterNames, strategy |-> strategy] >>
    ELSE << >>

InitRouter ==
    /\ \E strategy \in Strategies, routed \in BOOLEAN :
       \E w \in [DOMAIN RouterNames -> RouterWeights],
          lat \in [DOMAIN RouterNames -> RouterLatencies],
          fb \in [DOMAIN RouterNames -> BOOLEAN],
          cond \in [DOMAIN RouterNames -> RouterConditions] :
          /\ routed \/ strategy = "priority"
          /\ ~fb[1]
          /\ strategy = "priority" \/ \A i \in DOMAIN RouterNames : w[i] = 10
          /\ strategy = "lowest-latency" \/ \A i \in DOMAIN RouterNames : lat[i] = NoLatency
          /\ heap = [i \in DOMAIN RouterNames |->
                        routerChannel(routerConfig(RouterNames[i], w[i], fb[i]), cond[i], lat[i])]
          /\ routes = routerRoutes(strategy, routed)
    /\ channelMap = [i \in DOMAIN RouterNames |-> i]
    /\ rrCounters = << >>
    /\ retryCfg = [maxRetries |-> 0, retryOn |-> DefaultRetryOn]
    /\ req = << >>
    /\ lastPick = [i \in DOMAIN RouterNames |-> NoPicks]
    /\ envOps = 0
    /\ lastOp = NoOp
    /\ logLevel = "info"
    /\ healthTimers = {}
    /\ mock = NoMocks
    /\ obs = NoObserver
    /\ api = NoApi
    /\ tunnel = NoTunnel
    /\ picked = NoResolve

\* the channel names a failing request has already tried (proxy.mjs excludeChannels)
RouterExcludes == { <<"A">>, <<"B">>, <<"A", "B">> }

RouterCall(op, excludeNames, res) ==
    /\ envOps < MaxRouterCalls
    /\ envOps' = envOps + 1
    /\ heap' = res.heap
    /\ rrCounters' = res.rr
    /\ picked' = [op |-> op, exclude |-> excludeNames, chan |-> res.chan, key |-> res.key.index]
    /\ UNCHANGED <<channelMap, routes, retryCfg, req, lastPick, lastOp, logLevel, healthTimers,
                   mock, obs, api, tunnel>>

RouterResolve ==
    \E path \in RequestPaths, rnd \in 0..1 :
        RouterCall("resolve", << >>, resolve(heap, channelMap, routes, rrCounters, path, rnd))

RouterResolveNext ==
    \E path \in RequestPaths, rnd \in 0..1, excludeNames \in RouterExcludes :
        RouterCall("resolveNext", excludeNames,
                   resolveNext(heap, channelMap, routes, rrCounters, path, excludeNames, rnd))

NextRouter ==
    \/ RouterResolve
    \/ RouterResolveNext

SpecRouter == InitRouter /\ [][NextRouter]_vars


\* ───────────────────────── key pool under an endless stream of requests ─────────────────────────
\* One channel serves requests one after the other, without end: each request picks a key
\* (pickKey through resolve), the upstream answers, and the proxy calls markKeyFailed on a
\* 401/403 and markKeySuccess on a response below 400, with the index the pick returned. The
\* upstream rejects a set of credentials and may start to accept any of them again.
upstreamRejects(keyIndexes) == [rejects |-> keyIndexes]

InitHeal ==
    /\ \E n \in 1..MaxKeys, ks \in {"round-robin", "random"} :
          heap = <<createChannel([name |-> "P", weight |-> 10, fallback |-> FALSE, keyStrategy |-> ks,
                                  keys |-> [i \in 1..n |-> MockKeys[i]], healthCheck |-> FALSE])>>
    /\ \E S \in SUBSET (0..(Len(heap[1].keys) - 1)) : mock = upstreamRejects(S)
    /\ channelMap = <<1>>
    /\ routes = << >>
    /\ rrCounters = << >>
    /\ retryCfg = [maxRetries |-> 0, retryOn |-> DefaultRetryOn \cup KEY_FAILURE_CODES]
    /\ req = << >>
    /\ lastPick = <<NoPicks>>
    /\ envOps = 0
    /\ lastOp = NoOp
    /\ logLevel = "info"
    /\ healthTimers = {}
    /\ obs = NoObserver
    /\ api = NoApi
    /\ tunnel = NoTunnel
    /\ picked = NoResolve

HealUnchanged ==
    UNCHANGED <<channelMap, routes, rrCounters, retryCfg, req, lastPick, envOps, logLevel,
                healthTimers, obs, api, tunnel, picked>>

\* a request arrives and is dispatched with the key pickKey returns (none: 502, no dispatch)
HealDispatch ==
    /\ lastOp.op # "pickKey" \/ lastOp.arg = NoPick
    /\ \E rnd \in RandomDraws :
          LET pk == pickKey(heap[1], rnd)
          IN /\ heap' = [heap EXCEPT ![1] = pk.ch]
             /\ lastOp' = [NoOp EXCEPT !.op = "pickKey", !.arg = pk.index]
    /\ UNCHANGED mock
    /\ HealUnchanged

\* the upstream answers the attempt in flight: 403 for a key it rejects, 200 otherwise
HealAnswer ==
    /\ lastOp.op = "pickKey"
    /\ lastOp.arg # NoPick
    /\ IF lastOp.arg \in mock.rejects
       THEN /\ heap' = [heap EXCEPT ![1] = markKeyFailed(@, lastOp.arg)]
            /\ lastOp' = [NoOp EXCEPT !.op = "markKeyFailed", !.arg = lastOp.arg]
       ELSE /\ heap' = [heap EXCEPT ![1] = markKeySuccess(@, lastOp.arg)]
            /\ lastOp' = [NoOp EXCEPT !.op = "markKeySuccess", !.arg = lastOp.arg]
    /\ UNCHANGED mock
    /\ HealUnchanged

\* the provider's blip is over: the upstream accepts credential k from now on
HealUpstreamAccepts ==
    /\ \E k \in mock.rejects : mock' = upstreamRejects(mock.rejects \ {k})
    /\ UNCHANGED <<heap, lastOp>>
    /\ HealUnchanged

NextHeal ==
    \/ HealDispatch
    \/ HealAnswer
    \/ HealUpstreamAccepts

\* requests keep arriving and the upstream keeps answering
SpecHealLive ==
    InitHeal /\ [][NextHeal]_vars /\ WF_vars(HealDispatch) /\ WF_vars(HealAnswer)


\* ───────────────────────── route matching alone ─────────────────────────
\* matchRoute(routes, reqPath) over every list of one or two route patterns and every request
\* path of up to MaxPathLen characters (a request path starts with "/").
MaxPathLen == 4

PathChars == {"/", "v", "c"}

RoutePatterns ==
    { <<"/", "v", "/", "*", "*">>, <<"/", "v", "/", "*">>, <<"/", "v">>, <<"/", "v", "/", "c">>,
      <<"/", "*", "*">>, <<"/", "c", "/", "*">> }

MatchPaths ==
    {p \in UNION {[1..n -> PathChars] : n \in 1..MaxPathLen} : p[1] = "/"}

InitMatch ==
    /\ \E ps \in UNION {[1..n -> RoutePatterns] : n \in 1..2} :
          routes = [i \in DOMAIN ps |-> [path |-> ps[i], channels |-> << >>, strategy |-> "priority"]]
    /\ heap = << >>
    /\ channelMap = << >>
    /\ rrCounters = << >>
    /\ retryCfg = [maxRetries |-> 0, retryOn |-> DefaultRetryOn]
    /\ req = << >>
    /\ lastPick = << >>
    /\ envOps = 0
    /\ lastOp = NoOp
    /\ logLevel = "info"
    /\ healthTimers = {}
    /\ mock = NoMocks
    /\ obs = NoObserver
    /\ api = NoApi
    /\ tunnel = NoTunnel
    /\ picked = NoResolve

MatchCall ==
    /\ \E path \in MatchPaths :
          picked' = [op |-> "matchRoute", path |-> path, route |-> matchRoute(routes, path)]
    /\ UNCHANGED <<heap, channelMap, routes, rrCounters, retryCfg, req, lastPick, envOps, lastOp,
                   logLevel, healthTimers, mock, obs, api, tunnel>>

NextMatch ==
    \/ MatchCall

SpecMatch == InitMatch /\ [][NextMatch]_vars


\* ───────────────────────── the wait before a retry ─────────────────────────
\* proxy.mjs parses the upstream's Retry-After header and picks the delay of the next attempt;
\* retry.mjs computes the controller's own backoff. Times are in milliseconds.
MaxRetryAfterSecs == 2

MaxDelayAttempts == 3

NoRetryAfter == -1

\* a Retry-After header as the upstream sends it: none, a number of seconds, an HTTP-date
\* (given by its distance from now), or text that is neither
RetryAfterHeaders ==
    {[kind |-> "none", n |-> 0], [kind |-> "junk", n |-> 0]}
        \cup {[kind |-> "secs", n |-> s] : s \in 0..MaxRetryAfterSecs}
        \cup {[kind |-> "date", n |-> d] : d \in {-1000, 0, 1500}}

\* let retryAfterMs = null; if (ra) { parseInt ... else new Date(ra) ... }
parseRetryAfter(ra) ==
    CASE ra.kind = "none" -> NoRetryAfter
      [] ra.kind = "secs" -> ra.n * 1000
      [] ra.kind = "date" -> IF ra.n > 0 THEN ra.n ELSE 0
      [] ra.kind = "junk" -> NoRetryAfter

RECURSIVE Pow2(_)
Pow2(n) == IF n = 0 THEN 1 ELSE 2 * Pow2(n - 1)

Min(a, b) == IF a < b THEN a ELSE b

\* DEFAULT_RETRY_CONFIG with either backoff
DelayConfigs ==
    {[backoff |-> b, baseDelayMs |-> 1000, maxDelayMs |-> 10000] : b \in {"exponential", "fixed"}}

\* Math.random() * 2 - 1 at its ends and in the middle
Jitters == {-1, 0, 1}

\* retryCtrl.getDelay(attempt); jitter stands for Math.random() * 2 - 1
getDelay(cfg, attempt, jitter) ==
    IF cfg.backoff = "exponential"
    THEN LET delay == cfg.baseDelayMs * Pow2(attempt)
         IN Min(delay + (delay * jitter) \div 4, cfg.maxDelayMs)
    ELSE cfg.baseDelayMs

\* const delay = retryAfterMs || retryCtrl.getDelay(attempt - 1), attempt already incremented
selectDelay(cfg, retryAfterMs, attempt, jitter) ==
    IF retryAfterMs # NoRetryAfter /\ retryAfterMs # 0
    THEN retryAfterMs
    ELSE getDelay(cfg, attempt - 1, jitter)

InitDelay ==
    /\ \E cfg \in DelayConfigs : retryCfg = [maxRetries |-> MaxDelayAttempts, retryOn |-> DefaultRetryOn,
                                             backoff |-> cfg.backoff, baseDelayMs |-> cfg.baseDelayMs,
                                             maxDelayMs |-> cfg.maxDelayMs]
    /\ heap = << >>
    /\ channelMap = << >>
    /\ routes = << >>
    /\ rrCounters = << >>
    /\ req = << >>
    /\ lastPick = << >>
    /\ envOps = 0
    /\ lastOp = NoOp
    /\ logLevel = "info"
    /\ healthTimers = {}
    /\ mock = NoMocks
    /\ obs = NoObserver
    /\ api = NoApi
    /\ tunnel = NoTunnel
    /\ picked = NoResolve

\* attempt number `attempt` (0-indexed) ended with a retryable status and header ra, and
\* another attempt is left: the loop increments attempt and picks the delay it sleeps
DelayCall ==
    /\ \E ra \in RetryAfterHeaders, attempt \in 0..(MaxDelayAttempts - 1), jitter \in Jitters :
          picked' = [op |-> "delay", header |-> ra, attempt |-> attempt, jitter |-> jitter,
                     delay |-> selectDelay(retryCfg, parseRetryAfter(ra), attempt + 1, jitter)]
    /\ UNCHANGED <<heap, channelMap, routes, rrCounters, retryCfg, req, lastPick, envOps, lastOp,
                   logLevel, healthTimers, mock, obs, api, tunnel>>

NextDelay ==
    \/ DelayCall

SpecDelay == InitDelay /\ [][NextDelay]_vars


\* ───────────────────────── health prober and proxy on one channel ─────────────────────────
\* One channel with a health-check spec: the prober's callbacks and the outcomes of proxy
\* requests act on it in every order. lastOp.arg counts the probes that failed in a row.
MaxHealthOps == 5

InitHealth ==
    /\ heap = <<createChannel([name |-> "A", weight |-> 10, fallback |-> FALSE,
                               keyStrategy |-> "round-robin", keys |-> <<"k1">>,
                               healthCheck |-> TRUE])>>
    /\ channelMap = <<1>>
    /\ routes = << >>
    /\ rrCounters = << >>
    /\ retryCfg = [maxRetries |-> 0, retryOn |-> DefaultRetryOn]
    /\ req = << >>
    /\ lastPick = <<NoPicks>>
    /\ envOps = 0
    /\ lastOp = [NoOp EXCEPT !.arg = 0]
    /\ logLevel = "info"
    /\ healthTimers = startHealthChecks(heap, channelMap)
    /\ mock = NoMocks
    /\ obs = [on |-> TRUE, events |-> << >>, snap |-> heap]
    /\ api = NoApi
    /\ tunnel = NoTunnel
    /\ picked = NoResolve

HealthOp(op, probeFails, res) ==
    /\ envOps < MaxHealthOps
    /\ envOps' = envOps + 1
    /\ heap' = [heap EXCEPT ![1] = res.ch]
    /\ obs' = Emit(res.ev)
    /\ lastOp' = [NoOp EXCEPT !.op = op, !.arg = probeFails]
    /\ UNCHANGED <<channelMap, routes, rrCounters, retryCfg, req, lastPick, logLevel,
                   healthTimers, mock, api, tunnel, picked>>

HealthProbeOk ==
    /\ 1 \in healthTimers
    /\ \E elapsed \in Latencies : HealthOp("probeOk", 0, checkChannelOk(heap[1], elapsed))

HealthProbeFailed ==
    /\ 1 \in healthTimers
    /\ HealthOp("probeFailed", lastOp.arg + 1, checkChannelFailed(heap[1]))

\* a proxied request on the channel was streamed with a status below 400
HealthRequestOk ==
    \E elapsed \in Latencies :
        HealthOp("requestOk", lastOp.arg,
                 [ch |-> markKeySuccess(recordSuccess(heap[1], elapsed), 0), ev |-> << >>])

\* a proxied request on the channel ended with 502/503/504 or a transport error
HealthRequestFailed ==
    HealthOp("requestFailed", lastOp.arg, [ch |-> recordFailure(heap[1]), ev |-> << >>])

NextHealth ==
    \/ HealthProbeOk
    \/ HealthProbeFailed
    \/ HealthRequestOk
    \/ HealthRequestFailed

SpecHealth == InitHealth /\ [][NextHealth]_vars


\* ───────────────────────── setHealth called directly ─────────────────────────
\* channel.mjs exports setHealth(channel, status, latencyMs); SpecSetHealth calls it with
\* every status, with and without a latency, on the channel states SpecHealth produces.
HealthStatuses == {"unknown", "healthy", "unhealthy"}

SetHealthCall ==
    /\ envOps < MaxHealthOps
    /\ envOps' = envOps + 1
    /\ \E status \in HealthStatuses, latencyMs \in Latencies \cup {NoLatency} :
          /\ heap' = [heap EXCEPT ![1] = setHealth(@, status, latencyMs)]
          /\ picked' = [op |-> "setHealth", status |-> status, latencyMs |-> latencyMs]
    /\ lastOp' = [NoOp EXCEPT !.op = "setHealth", !.arg = lastOp.arg]
    /\ UNCHANGED <<channelMap, routes, rrCounters, retryCfg, req, lastPick, logLevel,
                   healthTimers, mock, obs, api, tunnel>>

NextSetHealth ==
    \/ HealthProbeOk
    \/ HealthProbeFailed
    \/ HealthRequestOk
    \/ HealthRequestFailed
    \/ SetHealthCall

SpecSetHealth == InitHealth /\ [][NextSetHealth]_vars

\* ═════════════════════════ properties ═════════════════════════

\* C1: for every channel object, successCount + failCount = totalRequests, in every state
\* reached by interleaved requests, the health prober and the management API.
C1_StatsConsistent ==
    \A c \in DOMAIN heap :
        heap[c].stats.successCount + heap[c].stats.failCount = heap[c].stats.totalRequests

\* a channel that recorded a success and a failure, with a management / prober operation done
C1_Witness ==
    /\ envOps >= 1
    /\ \E c \in DOMAIN heap :
          heap[c].stats.successCount >= 1 /\ heap[c].stats.failCount >= 1

\* C2: no request is dispatched upstream more than maxRetries + 1 times.
C2_AttemptsBounded ==
    \A r \in DOMAIN req : req[r].dispatches <= retryCfg.maxRetries + 1

\* a request that used every attempt of a policy that allows retries
C2_Witness ==
    \E r \in DOMAIN req :
        /\ retryCfg.maxRetries >= 1
        /\ req[r].pc = "done"
        /\ req[r].dispatches = retryCfg.maxRetries + 1

\* C3: at most one response is ever started toward the client of a request.
C3_AtMostOneResponse ==
    \A r \in DOMAIN req : req[r].responses <= 1

\* a request answered by a streamed upstream response after a retry
C3_Witness ==
    \E r \in DOMAIN req :
        /\ req[r].pc = "done"
        /\ req[r].dispatches >= 2
        /\ req[r].responses = 1
        /\ req[r].clientStatus = 200

\* the step in which request r's failed attempt schedules a retry
RetryScheduled(r) == req[r].pc = "upstream" /\ req'[r].pc = "sleeping"

\* the step recorded a channel failure on the channel r was dispatched to
ChannelFailureRecorded(r) ==
    heap'[req[r].chan].stats.failCount = heap[req[r].chan].stats.failCount + 1

\* C4 as stated: every retry is preceded by the addition of a new channel name to the
\* excluded set (the set strictly grows over the attempts of a request).
C4_StrictGrowth ==
    [][\A r \in DOMAIN req :
          RetryScheduled(r) =>
              /\ Range(req[r].excludeChannels) \subseteq Range(req'[r].excludeChannels)
              /\ Range(req[r].excludeChannels) # Range(req'[r].excludeChannels)]_vars

\* C4 amended: while a request is in its retry loop the excluded list only grows by
\* appending; a retry after a recorded channel failure (502/503/504 or transport error) is
\* preceded by the addition of the failed channel's name, which is new to the list; a retry
\* after a credential failure (401/403/429) leaves the list unchanged.
C4_GrowsOnChannelFailure ==
    [][\A r \in DOMAIN req :
          /\ (req[r].pc # "idle" /\ req'[r].pc # "done") =>
                /\ Len(req'[r].excludeChannels) >= Len(req[r].excludeChannels)
                /\ SubSeq(req'[r].excludeChannels, 1, Len(req[r].excludeChannels))
                      = req[r].excludeChannels
          /\ (RetryScheduled(r) /\ ChannelFailureRecorded(r)) =>
                /\ req'[r].excludeChannels
                      = Append(req[r].excludeChannels, heap[req[r].chan].name)
                /\ heap[req[r].chan].name \notin Range(req[r].excludeChannels)
          /\ (RetryScheduled(r) /\ ~ChannelFailureRecorded(r)) =>
                req'[r].excludeChannels = req[r].excludeChannels]_vars

\* one request waiting to retry after a credential failure with nothing excluded, another
\* waiting to retry after a channel failure with that channel excluded
C4_Witness ==
    \E r, q \in DOMAIN req :
        /\ req[r].pc = "sleeping" /\ req[r].attempt = 1 /\ req[r].excludeChannels = << >>
        /\ req[q].pc = "sleeping" /\ req[q].attempt = 1 /\ Len(req[q].excludeChannels) = 1

\* C5 as stated: with maxRetries = 0, a request whose single attempt returned 429, 502, 503
\* or 504 and that the policy treats as retryable ends with that status and the upstream
\* body delivered to the client, after exactly one dispatch.
C5_RetryableForwardedUnchanged ==
    \A r \in DOMAIN req :
        ( /\ retryCfg.maxRetries = 0
          /\ req[r].pc = "done"
          /\ req[r].last \in {429, 502, 503, 504}
          /\ req[r].last \in retryCfg.retryOn )
        => /\ req[r].dispatches = 1
           /\ req[r].clientStatus = req[r].last
           /\ req[r].clientBody = "upstream-body"

\* C6: a credential whose failure counter is >= 3 is not alive.
C6_DeadAtThreshold ==
    \A c \in DOMAIN heap :
        \A i \in DOMAIN heap[c].keys :
            heap[c].keys[i].failCount >= KeyFailThreshold => ~heap[c].keys[i].alive

\* markKeyFailed has just taken a credential to the threshold, and the credential is dead
C6_Witness ==
    /\ lastOp.op = "markKeyFailed"
    /\ lastOp.arg < Len(heap[1].keys)
    /\ heap[1].keys[lastOp.arg + 1].failCount = KeyFailThreshold
    /\ ~heap[1].keys[lastOp.arg + 1].alive

\* C7: a channel whose consecutiveFails counter is >= 3 is unhealthy.
C7_UnhealthyAtThreshold ==
    \A c \in DOMAIN heap :
        heap[c].consecutiveFails >= ChannelFailThreshold => heap[c].health = "unhealthy"

\* a channel driven to the threshold by request failures and a failed probe together
C7_Witness ==
    \E c \in DOMAIN heap :
        /\ heap[c].consecutiveFails >= ChannelFailThreshold
        /\ heap[c].stats.failCount >= 1
        /\ heap[c].stats.failCount < heap[c].consecutiveFails

\* the latest pool operation was removeKey with a valid index
RemovedValid == lastOp.op = "removeKey" /\ lastOp.arg < lastOp.len

\* C8 as stated: removeKey with a valid index at or past the cursor leaves the cursor at 0.
C8_CursorZeroAfterRemove ==
    (RemovedValid /\ lastOp.arg >= lastOp.cursor) => heap[1].keyIndex = 0

\* C8 amended: removeKey with a valid index resets the cursor to 0 exactly when the cursor
\* is no longer an index of the shortened pool (cursor >= new length), and otherwise leaves
\* it unchanged, also when the removed index is at or past the cursor.
C8_CursorClampedAfterRemove ==
    RemovedValid =>
        heap[1].keyIndex = IF lastOp.cursor >= lastOp.len - 1 THEN 0 ELSE lastOp.cursor

\* a key at or past a non-zero cursor was removed and the cursor stayed where it was
C8_Witness ==
    /\ RemovedValid
    /\ lastOp.arg >= lastOp.cursor
    /\ lastOp.cursor > 0
    /\ heap[1].keyIndex = lastOp.cursor

\* C9: on a round-robin channel with at least 2 alive credentials, two pickKey calls with no
\* change of the key pool between them return distinct indices.
C9_DistinctPicks ==
    \A c \in DOMAIN heap :
        ( /\ heap[c].keyStrategy = "round-robin"
          /\ lastPick[c].prev # NoPick
          /\ keyStats(heap[c]).alive >= 2 )
        => lastPick[c].prev # lastPick[c].last

\* two requests in flight on the same round-robin channel hold the two latest picks
C9_Witness ==
    \E r, q \in DOMAIN req :
        /\ r # q
        /\ req[r].pc = "upstream" /\ req[q].pc = "upstream"
        /\ req[r].chan = req[q].chan
        /\ heap[req[r].chan].keyStrategy = "round-robin"
        /\ keyStats(heap[req[r].chan]).alive >= 2
        /\ lastPick[req[r].chan].prev = req[r].key.index
        /\ lastPick[req[r].chan].last = req[q].key.index

\* C10: while a request is in its retry loop, every channel that had a channel-level failure
\* in it is in its excluded list, and the channel of an attempt in flight is none of them.
C10_FailedChannelExcluded ==
    \A r \in DOMAIN req :
        /\ req[r].pc # "done" => req[r].chanFailed \subseteq Range(req[r].excludeChannels)
        /\ req[r].pc = "upstream" => heap[req[r].chan].name \notin req[r].chanFailed

\* a later attempt in flight on another channel after a channel-level failure
C10_Witness ==
    \E r \in DOMAIN req :
        /\ req[r].pc = "upstream"
        /\ req[r].chanFailed # {}
        /\ req[r].dispatches >= 2

LatestDone(r) ==
    /\ req[r].pc = "done"
    /\ \A q \in DOMAIN req : q > r => req[q].pc = "idle"

\* the mock of channel n was asked during the latest request, and answered st every time
AnsweredOnly(n, st) ==
    /\ n \in DOMAIN mock
    /\ mock[n].requests # << >>
    /\ \A i \in DOMAIN mock[n].requests : mock[n].requests[i].status = st

\* the retry events the subscriber received during the latest request
RetryEvents == SelectSeq(obs.events, LAMBDA e : e.type = "retry")

\* the channel object of name n now, and as it was when the latest request arrived
Chan(n) == heap[getChannel(heap, channelMap, n)]
ChanBefore(n) == obs.snap[getChannel(heap, channelMap, n)]

\* C11: when primary A answers 502 and fallback B answers 200 during one request, the request
\* made one attempt on A and one on B with the same body, the client got 200, A's failCount
\* and consecutiveFails each grew by 1, B's successCount grew by 1, and exactly one retry
\* event was emitted, with fromChannel = A.
C11_FailoverOn502 ==
    \A r \in DOMAIN req :
        (LatestDone(r) /\ AnsweredOnly("A", 502) /\ AnsweredOnly("B", 200)) =>
            /\ Len(mock["A"].requests) = 1
            /\ Len(mock["B"].requests) = 1
            /\ mock["A"].requests[1].body = mock["B"].requests[1].body
            /\ req[r].dispatches = 2
            /\ req[r].responses = 1
            /\ req[r].clientStatus = 200
            /\ Chan("A").stats.failCount = ChanBefore("A").stats.failCount + 1
            /\ Chan("A").consecutiveFails = ChanBefore("A").consecutiveFails + 1
            /\ Chan("B").stats.successCount = ChanBefore("B").stats.successCount + 1
            /\ Len(RetryEvents) = 1
            /\ RetryEvents[1].channel = "A"
            /\ RetryEvents[1].id = r

\* the runner's second request failed over from A to B, as its first one had
C11_Witness ==
    \E r \in DOMAIN req :
        /\ r >= 2
        /\ LatestDone(r) /\ AnsweredOnly("A", 502) /\ AnsweredOnly("B", 200)
        /\ ChanBefore("A").stats.failCount >= 1
        /\ mock["A"].requests[1].body = "b2"

\* the latest request was first sent with credential k and answered st, and every later
\* attempt of it was answered 200
FirstThenOk(n, k, st) ==
    /\ n \in DOMAIN mock
    /\ Len(mock[n].requests) >= 2
    /\ mock[n].requests[1].key = k
    /\ mock[n].requests[1].status = st
    /\ \A i \in 2..Len(mock[n].requests) : mock[n].requests[i].status = 200

\* the single round-robin channel P had credentials [k1, k2, k3], all alive and never
\* failed, and its cursor on k1 when the latest request arrived
FreshPoolOfThree ==
    /\ DOMAIN mock = {"P"}
    /\ ChanBefore("P").keyStrategy = "round-robin"
    /\ ChanBefore("P").keyIndex = 0
    /\ Len(ChanBefore("P").keys) = 3
    /\ \A i \in 1..3 : ChanBefore("P").keys[i].alive /\ ChanBefore("P").keys[i].failCount = 0

\* C13: on a single round-robin channel with credentials [k1, k2, k3] whose upstream answers
\* 429 for k1 and 200 afterwards, one request makes exactly two attempts (k1, then k2), leaves
\* k1's failure counter at 1 with k1 alive, delivers 200 to the client, adds one success and one
\* request to the channel's stats (the 429 is not counted) and leaves the cursor past k1 and k2.
C13_RotationOn429 ==
    \A r \in DOMAIN req :
        (LatestDone(r) /\ FreshPoolOfThree /\ FirstThenOk("P", "k1", 429)) =>
            /\ req[r].dispatches = 2
            /\ Len(mock["P"].requests) = 2
            /\ mock["P"].requests[2].key = "k2"
            /\ Chan("P").keys[1].failCount = 1
            /\ Chan("P").keys[1].alive
            /\ req[r].clientStatus = 200
            /\ req[r].responses = 1
            /\ Chan("P").stats.successCount = ChanBefore("P").stats.successCount + 1
            /\ Chan("P").stats.totalRequests = ChanBefore("P").stats.totalRequests + 1
            /\ Chan("P").stats.failCount = ChanBefore("P").stats.failCount
            /\ Chan("P").keyIndex = 2

\* a request rotated from k1 to k2 after a 429 and was answered 200
C13_Witness ==
    \E r \in DOMAIN req :
        /\ LatestDone(r) /\ FreshPoolOfThree /\ FirstThenOk("P", "k1", 429)
        /\ retryCfg.maxRetries = MaxMockRetries
        /\ mock["P"].forceStatusCount = 1

\* the upstream of channel n answers 403 to every attempt made with k1, the channel's first
\* credential, and 200 to every other attempt
Always403ForK1(n) ==
    /\ mock[n].forceStatus = 403
    /\ mock[n].forceStatusCount = Infinity
    /\ mock[n].forKey = "k1"
    /\ Chan(n).keys[1].value = "k1"

\* the number of requests the runner has got an answer to
DoneCount == Cardinality({r \in DOMAIN req : req[r].pc = "done"})

\* no request is under way
Quiet == \A r \in DOMAIN req : req[r].pc \in {"idle", "done"}

\* C14 as stated: when the upstream answers 403 to every attempt made with k1, then for any
\* pool size and any maxRetries k1 is alive after the first and after the second request, is
\* not alive after the third, and the request after that is dispatched with k2.
C14_DeadAfterThirdRequest ==
    \A n \in DOMAIN mock :
        (Always403ForK1(n) /\ DOMAIN mock = {"P"}) =>
            /\ (Quiet /\ DoneCount \in {1, 2}) => Chan(n).keys[1].alive
            /\ (Quiet /\ DoneCount >= 3) => ~Chan(n).keys[1].alive
            /\ \A r \in DOMAIN req :
                  (r = 4 /\ req[r].pc = "upstream") => req[r].key.value = "k2"

\* C14 amended: k1 is disabled by its third failed attempt, not by the third request. When the
\* upstream answers 403 to every attempt made with k1, k1's failure counter equals the number
\* of attempts made with k1, k1 is alive exactly while that number is below 3, no attempt is
\* made with k1 after its third, and every attempt in flight carries an alive credential.
C14_DeadAfterThirdAttempt ==
    \A n \in DOMAIN mock :
        Always403ForK1(n) =>
            /\ Chan(n).keys[1].failCount = mock[n].forcedSoFar
            /\ Chan(n).keys[1].alive <=> mock[n].forcedSoFar < KeyFailThreshold
            /\ mock[n].forcedSoFar <= KeyFailThreshold
            /\ \A r \in DOMAIN req :
                  (req[r].pc = "upstream" /\ heap[req[r].chan].name = n) =>
                      heap[req[r].chan].keys[req[r].key.index + 1].alive

\* k1 was disabled during the second request, which then got its 200 with another credential
C14_Witness ==
    \E r \in DOMAIN req :
        /\ r = 2
        /\ LatestDone(r)
        /\ "P" \in DOMAIN mock
        /\ Always403ForK1("P")
        /\ ~Chan("P").keys[1].alive
        /\ req[r].clientStatus = 200

\* C15: when every attempt of a request is answered 403 and the channel has no other
\* credential, then once the retries are exhausted the client receives the last upstream 403,
\* status and body.
C15_LastKeyFailureForwarded ==
    \A r \in DOMAIN req :
        ( /\ LatestDone(r)
          /\ DOMAIN mock = {"P"}
          /\ Len(Chan("P").keys) = 1
          /\ AnsweredOnly("P", 403)
          /\ Len(mock["P"].requests) = retryCfg.maxRetries + 1 )
        => /\ req[r].clientStatus = 403
           /\ req[r].clientBody = "upstream-body"

\* the last attempt of request r ended with neither a streamed nor a forwarded response:
\* a transport error, or a status the retry loop does not hand to the client
LastAttemptFailed(r) ==
    \/ req[r].last = TransportError
    \/ req[r].last # NoStatus /\ (shouldRetry(req[r].last) \/ isKeyFailure(req[r].last))

\* C16: a request that made maxRetries + 1 attempts, none of which produced a streamed or
\* forwarded response, ends with the synthesized 502 error envelope.
C16_ExhaustedEndsWith502 ==
    \A r \in DOMAIN req :
        ( /\ req[r].pc = "done"
          /\ req[r].dispatches = retryCfg.maxRetries + 1
          /\ LastAttemptFailed(r) )
        => /\ req[r].responses = 1
           /\ req[r].clientStatus = 502
           /\ req[r].clientBody = "proxy_error"

\* a request whose first attempt and whose retry both failed with a status code
C16_Witness ==
    \E r \in DOMAIN req :
        /\ retryCfg.maxRetries >= 1
        /\ req[r].pc = "done"
        /\ req[r].dispatches = retryCfg.maxRetries + 1
        /\ req[r].last \in {429, 401, 403, 502, 503, 504}
        /\ req[r].clientStatus = 502

\* C17: once the client of a request has disconnected (clientGone is set), no further
\* upstream attempt is dispatched for it and no response is written to it.
C17_NothingAfterClientGone ==
    [][\A r \in DOMAIN req :
          req[r].clientGone =>
              /\ req'[r].dispatches = req[r].dispatches
              /\ req'[r].responses = req[r].responses]_vars

\* C18: a client disconnect aborts the upstream call in flight: the outcome of an attempt
\* whose client has gone changes no channel and no credential state.
C18_AbortedOutcomeMutatesNothing ==
    [][\A r \in DOMAIN req :
          (req[r].clientGone /\ req[r].pc = "upstream" /\ req'[r] # req[r])
              => heap' = heap]_vars

\* the step dispatches an attempt of request r
Dispatched(r) == req[r].pc # "upstream" /\ req'[r].pc = "upstream"

\* C19: across a hot reload a request that started before router.update and had its
\* previous attempt dispatched against the old state makes its next attempt, selected after
\* the swap, against a channel of the old state too; a request that starts after the swap is
\* dispatched only to channels of the new channel map.
C19_AttemptsAgainstStartState ==
    [][\A r \in DOMAIN req :
          /\ ( /\ Dispatched(r)
               /\ req[r].dispatches >= 1
               /\ req[r].chan \in Range(req[r].startMap) )
             => req'[r].chan \in Range(req[r].startMap)
          /\ (Dispatched(r) /\ req[r].startMap = channelMap)
             => req'[r].chan \in Range(channelMap)]_vars

\* the step is a reload whose loadConfig threw
ReloadFailedStep == envOps' = envOps + 1 /\ lastOp'.op = "reloadFailed"

\* C20: a reload whose loading of the new configuration fails leaves the router's channel map
\* and route list, the log level and the running health checks unchanged.
C20_FailedReloadKeepsState ==
    [][ReloadFailedStep =>
          /\ channelMap' = channelMap
          /\ routes' = routes
          /\ logLevel' = logLevel
          /\ healthTimers' = healthTimers]_vars

\* a reload failed while a health check was running, and the state is the startup state
C20_Witness ==
    /\ lastOp.op = "reloadFailed"
    /\ healthTimers # {}
    /\ logLevel = "info"
    /\ channelMap = <<1, 2>>

\* ───────────────────────── properties of SpecApi ─────────────────────────
\* the positions in the API server's log of the toggles of channel n that were carried out
TogglesOf(n) ==
    {j \in DOMAIN api.log :
        api.log[j].op = "toggle" /\ api.log[j].name = n /\ api.log[j].status = 200}

\* the enabled value of channel n just before the request at log position j: the value the
\* latest toggle before j returned, or the value channels are created with
EnabledBefore(n, j) ==
    LET earlier == {i \in TogglesOf(n) : i < j}
    IN IF earlier = {} THEN TRUE
       ELSE api.log[CHOOSE i \in earlier : \A k \in earlier : k <= i].body.enabled

\* C21: each toggle of a channel returns the negation of the channel's enabled value, GET
\* /api/channels shows the value the latest toggle returned, and two toggles of a channel
\* restore the value it had before them.
C21_ToggleTwiceRestores ==
    /\ \A n \in ChannelNames : \A j \in TogglesOf(n) :
          /\ api.log[j].body.enabled = ~EnabledBefore(n, j)
          /\ \A i \in TogglesOf(n) :
                (i < j /\ Cardinality({k \in TogglesOf(n) : i < k /\ k < j}) = 0)
                    => api.log[j].body.enabled = EnabledBefore(n, i)
    /\ \A j \in DOMAIN api.log :
          (api.log[j].op = "list" /\ api.log[j].status = 200) =>
              \A i \in DOMAIN api.log[j].body :
                  api.log[j].body[i].enabled = EnabledBefore(api.log[j].body[i].name, j)
    /\ \A n \in ChannelNames :
          getChannel(heap, channelMap, n) # NoChan =>
              Chan(n).enabled = EnabledBefore(n, Len(api.log) + 1)

\* channel A was toggled twice and then listed
C21_Witness ==
    /\ Len(api.log) = 3
    /\ TogglesOf("A") = {1, 2}
    /\ api.log[3].op = "list"
    /\ api.log[3].status = 200

\* the request answered by e presented the configured token: as a Bearer token, or, for the
\* SSE log stream, as the ?token= query parameter
PresentsToken(e) ==
    \/ e.cred.scheme = "Bearer" /\ e.cred.header = api.uiAuthToken
    \/ e.op = "logs" /\ e.cred.query = api.uiAuthToken

\* C22: when a uiAuthToken is configured, an /api/* request that does not present it is
\* answered 401 and changes no channel state, and a request that presents it is served.
C22_TokenRequired ==
    [][(api.uiAuthToken # NoToken /\ Len(api'.log) = Len(api.log) + 1) =>
          LET e == api'.log[Len(api'.log)]
          IN IF PresentsToken(e)
             THEN e.status # 401
             ELSE e.status = 401 /\ heap' = heap]_vars

\* ───────────────────────── properties of SpecTunnel ─────────────────────────
\* an SSH connection attempt is under way, or a session is established
AttemptOrSession == tunnel.client \in {"connecting", "ready"}

\* C23: once the SSH link has been lost other than by shutdown, then as long as no session is
\* re-established and shutdown is not called, a reconnect attempt is eventually started, also
\* after reconnect attempts that themselves failed.
C23_ReconnectUntilUp ==
    (tunnel.lostLink /\ ~tunnel.stopping)
        ~> (AttemptOrSession \/ tunnel.stopping)

\* C24: once the tunnel manager has been shut down by its owner, no new SSH connection
\* attempt is started, also when the initial connection attempt had failed.
C24_NoAttemptAfterShutdown ==
    [][(tunnel.stopping /\ tunnel' # tunnel) => tunnel'.last # "connect"]_vars

\* ───────────────────────── properties of SpecRouter ─────────────────────────
\* the channels of the group the last call matched that the call was allowed to choose from
\* (resolveNext leaves out the excluded names)
RouterGroup ==
    LET path == CHOOSE p \in RequestPaths : TRUE
        r == matchRoute(routes, path)
        group == IF r = 0 THEN channelMap ELSE routeChannels(heap, channelMap, routes[r].channels)
    IN {c \in Range(group) : heap[c].name \notin Range(picked.exclude)}

RouterStrategy ==
    LET r == matchRoute(routes, CHOOSE p \in RequestPaths : TRUE)
    IN IF r = 0 THEN "priority" ELSE routes[r].strategy

Returned == picked.op # "none" /\ picked.chan # NoChan

\* C25: under every route strategy, resolve and resolveNext return a fallback channel only
\* when no non-fallback channel of the matched group (not excluded by the caller) is available.
C25_FallbackOnlyWhenNoPrimary ==
    (Returned /\ heap[picked.chan].fallback) =>
        \A c \in RouterGroup : ~(~heap[c].fallback /\ isAvailable(heap[c]))

\* ───────────────────────── properties of the key pool, continued ─────────────────────────
\* the indices n consecutive pickKey calls return from channel state ch on, nothing else
\* touching the channel between them
RECURSIVE pickWindow(_, _)
pickWindow(ch, n) ==
    IF n = 0 THEN << >>
    ELSE LET pk == pickKey(ch, 0)
         IN <<pk.index>> \o pickWindow(pk.ch, n - 1)

\* C26: on a round-robin channel, from every state of the key pool on, aliveKeys consecutive
\* pickKey calls return every alive credential (each exactly once), wherever the dead
\* credentials and the cursor are; and two consecutive calls that were made with the pool
\* unchanged between them returned different credentials when more than one is alive.
C26_NoAliveKeyStarved ==
    \A c \in DOMAIN heap :
        (heap[c].keyStrategy = "round-robin" /\ AliveIdx(heap[c]) # {}) =>
            /\ Range(pickWindow(heap[c], keyStats(heap[c]).alive)) = AliveIdx(heap[c])
            /\ (lastPick[c].prev # NoPick /\ lastPick[c].last # NoPick /\ keyStats(heap[c]).alive > 1)
                   => lastPick[c].prev # lastPick[c].last

\* two consecutive picks have been made on a round-robin pool whose middle credential is dead
C26_Witness ==
    /\ lastOp.op = "pickKey"
    /\ heap[1].keyStrategy = "round-robin"
    /\ Len(heap[1].keys) = 3
    /\ AliveIdx(heap[1]) = {0, 2}
    /\ lastPick[1].prev # NoPick
    /\ lastPick[1].last # NoPick

\* a step of SpecPool that applies markKeyFailed to a credential of the pool whose failure
\* counter is at or beyond the threshold
FailsBeyondThreshold ==
    /\ envOps' = envOps + 1
    /\ lastOp'.op = "markKeyFailed"
    /\ lastOp'.arg < Len(heap[1].keys)
    /\ heap[1].keys[lastOp'.arg + 1].failCount >= KeyFailThreshold

\* C27 as stated: markKeyFailed applied to a credential whose failure counter is already
\* >= 3 leaves that credential's alive flag and failure counter unchanged.
C27_IdempotentBeyondThreshold ==
    [][FailsBeyondThreshold =>
          heap'[1].keys[lastOp'.arg + 1] = heap[1].keys[lastOp'.arg + 1]]_vars

\* C27 amended: markKeyFailed applied to a credential whose failure counter is already >= 3
\* leaves the credential disabled and everything else of the channel as it was, and raises
\* the credential's failure counter by one.
C27_BeyondThresholdStaysDead ==
    [][FailsBeyondThreshold =>
          /\ ~heap[1].keys[lastOp'.arg + 1].alive
          /\ ~heap'[1].keys[lastOp'.arg + 1].alive
          /\ heap'[1] = [heap[1] EXCEPT !.keys[lastOp'.arg + 1].failCount = @ + 1]]_vars

\* markKeyFailed has just been applied to a credential that was already disabled
C27_Witness ==
    /\ lastOp.op = "markKeyFailed"
    /\ lastOp.arg < Len(heap[1].keys)
    /\ Len(heap[1].keys) = lastOp.len
    /\ heap[1].keys[lastOp.arg + 1].failCount > KeyFailThreshold

\* ───────────────────────── properties of SpecHealLive ─────────────────────────
\* C28: a credential disabled after three failures that the upstream accepts again is
\* eventually dispatched again and thereby alive, with failure counter 0.
C28_DisabledKeyHeals ==
    \A k \in 0..(MaxKeys - 1) :
        (k < Len(heap[1].keys) /\ ~heap[1].keys[k + 1].alive /\ k \notin mock.rejects)
            ~> (k < Len(heap[1].keys) /\ heap[1].keys[k + 1].alive
                    /\ heap[1].keys[k + 1].failCount = 0)

\* the whole group the last call matched, excluded channels included
MatchedGroup ==
    LET r == matchRoute(routes, CHOOSE p \in RequestPaths : TRUE)
    IN Range(IF r = 0 THEN channelMap ELSE routeChannels(heap, channelMap, routes[r].channels))

ReturnsEnabledAlive ==
    Returned =>
        /\ heap[picked.chan].enabled
        /\ picked.key \in AliveIdx(heap[picked.chan])
        /\ heap[picked.chan].name \notin Range(picked.exclude)

\* C29 as stated: resolve and resolveNext never return a disabled channel or a credential
\* that is not alive, and return an unhealthy channel only when it is an enabled fallback
\* channel and no channel of the matched group is available.
C29_UnhealthyOnlyWhenGroupDown ==
    /\ ReturnsEnabledAlive
    /\ (Returned /\ heap[picked.chan].health = "unhealthy") =>
          /\ heap[picked.chan].fallback
          /\ \A c \in MatchedGroup : ~isAvailable(heap[c])

\* C29 amended: resolve and resolveNext never return a disabled channel or a credential
\* that is not alive, and return an unhealthy channel only when it is an enabled fallback
\* channel and no channel of the matched group that the caller did not exclude is available.
C29_UnhealthyOnlyWhenCandidatesDown ==
    /\ ReturnsEnabledAlive
    /\ (Returned /\ heap[picked.chan].health = "unhealthy") =>
          /\ heap[picked.chan].fallback
          /\ \A c \in RouterGroup : ~isAvailable(heap[c])

\* resolveNext has returned an unhealthy fallback channel while another channel of the group
\* is disabled or has a dead credential
C29_Witness ==
    /\ Returned
    /\ picked.op = "resolveNext"
    /\ heap[picked.chan].health = "unhealthy"
    /\ \E c \in MatchedGroup : ~heap[c].enabled
    /\ \E c \in MatchedGroup : AliveIdx(heap[c]) = {}

\* the matched group in declaration order, and a channel's place in it
GroupSeq ==
    LET r == matchRoute(routes, CHOOSE p \in RequestPaths : TRUE)
    IN IF r = 0 THEN channelMap ELSE routeChannels(heap, channelMap, routes[r].channels)

Place(c) == CHOOSE i \in DOMAIN GroupSeq : GroupSeq[i] = c

AvailablePool == {c \in RouterGroup : isAvailable(heap[c])}

LastResortPool == {c \in RouterGroup : heap[c].enabled /\ heap[c].fallback}

\* a comes before b in the order (fallback ascending, weight descending, declaration order)
Before(a, b) ==
    \/ ~heap[a].fallback /\ heap[b].fallback
    \/ heap[a].fallback = heap[b].fallback /\ heap[a].weight > heap[b].weight
    \/ heap[a].fallback = heap[b].fallback /\ heap[a].weight = heap[b].weight /\ Place(a) < Place(b)

FirstByPriority(pool) == CHOOSE a \in pool : \A b \in pool \ {a} : Before(a, b)

FirstDeclared(pool) == CHOOSE a \in pool : \A b \in pool \ {a} : Place(a) < Place(b)

\* the last call returned channel c, or nothing because c has no alive credential
Chose(c) ==
    IF AliveIdx(heap[c]) = {} THEN picked.chan = NoChan ELSE picked.chan = c

ShouldMatch(pattern, path) ==
    IF EndsWith(pattern, <<"/", "*", "*">>)
    THEN LET prefix == SubSeq(pattern, 1, Len(pattern) - 3)
         IN path = prefix \/ StartsWith(path, prefix \o <<"/">>)
    ELSE IF EndsWith(pattern, <<"/", "*">>)
    THEN LET prefix == SubSeq(pattern, 1, Len(pattern) - 2)
         IN /\ StartsWith(path, prefix \o <<"/">>)
            /\ "/" \notin Range(SliceFrom(path, Len(prefix) + 1))
    ELSE pattern = path

\* C31: matchRoute returns the first route in declaration order whose pattern is to match the
\* path (prefix/** : prefix and descendants; prefix/* : prefix, "/" and exactly one more
\* segment; otherwise the identical path), and null when there is none.
C31_FirstMatchingRoute ==
    picked.op = "matchRoute" =>
        LET hits == {i \in DOMAIN routes : ShouldMatch(routes[i].path, picked.path)}
        IN IF hits = {} THEN picked.route = 0
           ELSE picked.route \in hits /\ \A i \in hits : picked.route <= i

\* ───────────────────────── properties of SpecDelay ─────────────────────────
\* the header is present and parses, and the wait it asks for
Parses(ra) == ra.kind \in {"secs", "date"}

AskedWait(ra) == IF ra.kind = "secs" THEN ra.n * 1000 ELSE IF ra.n > 0 THEN ra.n ELSE 0

\* C32: the wait before the next attempt equals the Retry-After value whenever the header is
\* present and parses (seconds, 0 included, or an HTTP-date), and the controller's
\* delay(attempt) with the 0-indexed number of the failed attempt otherwise.
C32_RetryAfterHonoured ==
    picked.op = "delay" =>
        IF Parses(picked.header)
        THEN picked.delay = AskedWait(picked.header)
        ELSE picked.delay = getDelay(retryCfg, picked.attempt, picked.jitter)

\* ───────────────────────── properties of Spec, continued ─────────────────────────
\* the attempt of request r that was in flight ends in this step, with a status of the
\* buffered branch as the request's last outcome
EndsBuffered(r) ==
    /\ req[r].pc = "upstream"
    /\ req'[r].pc = "done"
    /\ req'[r].last \in BufferedStatuses

\* C33: for every configured retryOn set, an upstream response with status 401, 403 or 429
\* marks the used credential failed, and one with status 502, 503 or 504 records a channel
\* failure and excludes the channel.
C33_BufferedStatusUpdatesState ==
    [][\A r \in DOMAIN req :
          EndsBuffered(r) =>
              LET c == req[r].chan
                  k == req[r].key.index
              IN /\ (req'[r].last \in {401, 403, 429} /\ k < Len(heap[c].keys)) =>
                        heap'[c].keys[k + 1].failCount > heap[c].keys[k + 1].failCount
                 /\ req'[r].last \in {502, 503, 504} =>
                        /\ heap'[c].stats.failCount = heap[c].stats.failCount + 1
                        /\ heap[c].name \in Range(req'[r].excludeChannels)]_vars

\* ───────────────────────── properties of SpecMock, continued ─────────────────────────
\* the request events the subscriber received during the latest request
RequestEvents == SelectSeq(obs.events, LAMBDA e : e.type = "request")

\* C34: a request that ended with a response to the client (streamed upstream response,
\* forwarded buffered status, synthesized 502 or 503) has emitted exactly one request event,
\* carrying its id and the status the client received.
C34_OneRequestEventPerResponse ==
    \A r \in DOMAIN req :
        (LatestDone(r) /\ req[r].responses = 1) =>
            /\ Len(RequestEvents) = 1
            /\ RequestEvents[1].id = r
            /\ RequestEvents[1].status = req[r].clientStatus

\* ───────────────────────── properties of SpecHealth ─────────────────────────
\* the health events emitted in this step
NewHealthEvents == Len(obs'.events) - Len(obs.events)

BecomesUnhealthy == heap[1].health # "unhealthy" /\ heap'[1].health = "unhealthy"

BecomesHealthy == heap[1].health = "unhealthy" /\ heap'[1].health = "healthy"

\* C35: with proxy requests recording successes and failures on the same channel, the
\* channel becomes unhealthy exactly in the step of the third failed probe in a row, exactly
\* one health event is emitted at every transition into and out of unhealthy and none at any
\* other time, and a probe success resets the failure counter to 0.
C35_ProberOwnsHealth ==
    [][envOps' = envOps + 1 =>
          /\ BecomesUnhealthy <=> (lastOp'.op = "probeFailed" /\ lastOp'.arg = UNHEALTHY_THRESHOLD)
          /\ NewHealthEvents = (IF BecomesUnhealthy \/ BecomesHealthy THEN 1 ELSE 0)
          /\ lastOp'.op = "probeOk" => heap'[1].consecutiveFails = 0]_vars

\* ───────────────────────── properties of SpecSetHealth ─────────────────────────
\* C36: setHealth(ch, "healthy", latency?) zeros consecutiveFails whether or not a latency is
\* supplied; setHealth to any other state leaves consecutiveFails and the latency unchanged.
C36_HealthyZeroesFailures ==
    [][(envOps' = envOps + 1 /\ lastOp'.op = "setHealth") =>
          IF picked'.status = "healthy"
          THEN heap'[1].consecutiveFails = 0
          ELSE /\ heap'[1].consecutiveFails = heap[1].consecutiveFails
               /\ heap'[1].latency = heap[1].latency]_vars

\* ───────────────────────── properties of the key pool, the cursor ─────────────────────────
\* C37: after any sequence of pickKey, addKey, removeKey, markKeyFailed and markKeySuccess
\* the round-robin cursor is within 0 .. max(1, totalKeys) - 1, and an index pickKey has just
\* returned is an index of the pool and of an alive credential.
C37_CursorInRange ==
    /\ \A c \in DOMAIN heap :
          /\ heap[c].keyIndex >= 0
          /\ heap[c].keyIndex < (IF Len(heap[c].keys) > 1 THEN Len(heap[c].keys) ELSE 1)
    /\ (lastOp.op = "pickKey" /\ lastOp.arg # NoPick) =>
          /\ lastOp.arg \in 0..(Len(heap[1].keys) - 1)
          /\ heap[1].keys[lastOp.arg + 1].alive

\* pickKey has returned a credential of a pool that was shortened, holds a dead credential,
\* and whose cursor has wrapped to 0
C37_Witness ==
    /\ lastOp.op = "pickKey"
    /\ lastOp.arg # NoPick
    /\ Len(heap[1].keys) = 2
    /\ \E i \in DOMAIN heap[1].keys : ~heap[1].keys[i].alive
    /\ heap[1].keyStrategy = "round-robin"
    /\ heap[1].keyIndex = 0

\* ───────────────────────── properties of Spec, the credential of an attempt ─────────────────────────
\* the attempt of request r that was in flight ends in this step
AttemptEnds(r) == req[r].pc = "upstream" /\ req'[r].pc # "upstream"

\* C38: the markKeyFailed / markKeySuccess a request applies after its upstream response
\* changes no credential but the one whose value the request sent, also when the management
\* API removed or added a key of the channel between the request's pickKey and the mark.
C38_MarkHitsTheKeySent ==
    [][\A r \in DOMAIN req :
          AttemptEnds(r) =>
              LET c == req[r].chan
              IN \A i \in DOMAIN heap[c].keys :
                    heap'[c].keys[i] # heap[c].keys[i] => heap[c].keys[i].value = req[r].key.value]_vars

\* ───────────────────────── properties of SpecMock, unhealthy for good ─────────────────────────
\* channel c is a primary channel without health-check spec, unhealthy, with no attempt in
\* flight on it
Stranded(c) ==
    /\ ~heap[c].fallback
    /\ ~heap[c].healthCheck
    /\ heap[c].health = "unhealthy"
    /\ \A r \in DOMAIN req : ~(req[r].pc = "upstream" /\ req[r].chan = c)

\* C39: a non-fallback channel without health-check spec that request failures have made
\* unhealthy and that has no request in flight stays unhealthy, and no attempt is dispatched
\* on it, in every later step (the channel objects live until a reload replaces them).
C39_StrandedStaysUnhealthy ==
    [][\A c \in DOMAIN heap :
          Stranded(c) =>
              /\ heap'[c].health = "unhealthy"
              /\ \A r \in DOMAIN req : ~(req'[r].pc = "upstream" /\ req'[r].chan = c)]_vars

\* three requests failed on P, which is unhealthy with every credential alive, and the
\* request after them was answered 503 without a dispatch
C39_Witness ==
    \E r \in DOMAIN req :
        /\ LatestDone(r)
        /\ DOMAIN mock = {"P"}
        /\ Stranded(1)
        /\ heap[1].stats.failCount = ChannelFailThreshold
        /\ \A i \in DOMAIN heap[1].keys : heap[1].keys[i].alive
        /\ req[r].dispatches = 0
        /\ req[r].clientStatus = 503

\* ───────────────────────── properties of Spec, streamed error statuses ─────────────────────────
\* the attempt of request r ends in this step with a streamed response of status >= 400
EndsStreamedError(r) ==
    /\ req[r].pc = "upstream"
    /\ req'[r].pc = "done"
    /\ req'[r].last \in StreamStatuses
    /\ req'[r].last >= 400

\* C40: streaming an upstream response whose status is >= 400 and outside the buffered set
\* leaves the channel's totalRequests, successCount, failCount, health, consecutiveFails and
\* latency unchanged, and the alive flag and failure counter of every credential of the
\* channel, the used one included.
C40_StreamedErrorTouchesNothing ==
    [][\A r \in DOMAIN req :
          EndsStreamedError(r) =>
              LET c == req[r].chan
              IN /\ heap'[c].stats = heap[c].stats
                 /\ heap'[c].health = heap[c].health
                 /\ heap'[c].consecutiveFails = heap[c].consecutiveFails
                 /\ heap'[c].latency = heap[c].latency
                 /\ Len(heap'[c].keys) = Len(heap[c].keys)
                 /\ \A i \in DOMAIN heap[c].keys :
                       /\ heap'[c].keys[i].alive = heap[c].keys[i].alive
                       /\ heap'[c].keys[i].failCount = heap[c].keys[i].failCount]_vars

\* a request whose first attempt failed on one channel and whose second attempt was streamed
\* with 404: the failure is the only request any channel has counted
C40_Witness ==
    \E r \in DOMAIN req :
        /\ req[r].pc = "done"
        /\ req[r].last = 404
        /\ req[r].clientStatus = 404
        /\ req[r].dispatches = 2
        /\ \A q \in DOMAIN req \ {r} : req[q].pc = "idle"
        /\ \E c \in DOMAIN heap :
              /\ heap[c].stats = [totalRequests |-> 1, successCount |-> 0, failCount |-> 1]
              /\ heap[c].consecutiveFails = 1
              /\ \A d \in DOMAIN heap \ {c} : heap[d].stats.totalRequests = 0

====
